---- MODULE Spec2Model ----
(***************************************************************************)
(* Model of the radicle-fetch replication engine (radicle-fetch/src) and   *)
(* of the packed-refs snapshot facade it is layered on.                    *)
(*                                                                         *)
(* Three specifications share the variables:                               *)
(*   Spec       the exchange driver (pull / clone) over one Handle         *)
(*   SpecUpdate Refdb::update applied to arbitrary batches of updates      *)
(*   SpecSnap   Refdb::snapshot / reload run by concurrent threads         *)
(***************************************************************************)
EXTENDS Integers, Sequences, FiniteSets, TLC

VARIABLES
    refdb,      \* Handle.refdb: the real reference store, refname -> target
    odb,        \* the object store: set of object ids present locally
    mode,       \* "pull" | "clone": which entry point of lib.rs is running
    remote,     \* the `remote` argument of pull / clone
    tracked,    \* Tracking::tracked(): [scope, remotes]
    adv,        \* what the serving peer advertises: refname -> tip
    pc,         \* position of the driver inside pull / clone / exchange
    round,      \* number of replications started on this handle
    st,         \* FetchState: [refs, canonical_rad_id, ids, sigrefs, tips]
    anchor,     \* the verified anchor identity (its oid), NoOid before
    delegates,  \* exchange(): delegates kept for this exchange
    signed_refs,\* exchange(): the RemoteRefs loaded for the data step
    result,     \* outcome of the replication: [ok, err, applied, rc, validation]
    wire,       \* requests written on the transport, in order
    hist,       \* observations about the run for the properties
    ubatch,     \* SpecUpdate: the batch handed to Refdb::update
    uout,       \* SpecUpdate: what Refdb::update returned
    slot,       \* SpecSnap: internal::Refdb.buffer, the shared buffer slot
    disk,       \* SpecSnap: the packed-refs file: [exists, mtime, content]
    lock,       \* SpecSnap: the RwLock: [readers, writer]
    th,         \* SpecSnap: per thread [pc, seen, snap, held, obs]
    tosend,     \* SpecUpload: requests the fetching side has still to write
    sentinel,   \* SpecUpload: the fetching side has called Transport::done
    closed,     \* SpecUpload: the fetching side has hung up the stream
    recv,       \* SpecUpload: bytes written to the stream and not yet read
    stdin,      \* SpecUpload: bytes forwarded to the git upload-pack child
    reader,     \* SpecUpload: the receive thread: "reading" | "finished"
    sender,     \* SpecUpload: the stdout copier: "copying" | "finished"
    child,      \* SpecUpload: the git child: "running" | "killed"
    upload,     \* SpecUpload: upload_pack itself: "serving" | "returned"
    call,       \* SpecAncestry: one call of is_in_ancestry_path: [new, old, out]
    scn         \* SpecScan: InMemory and one Scan over it: [map, at, prefix,
                \*           inner, out]

vars == <<refdb, odb, mode, remote, tracked, adv, pc, round, st, anchor,
          delegates, signed_refs, result, wire, hist, ubatch, uout,
          slot, disk, lock, th,
          tosend, sentinel, closed, recv, stdin, reader, sender, child,
          upload, call, scn>>

exVars   == <<refdb, odb, mode, remote, tracked, adv, pc, round, st, anchor,
              delegates, signed_refs, result, wire, hist>>
updVars  == <<ubatch, uout>>
snapVars == <<slot, disk, lock, th>>
uplVars  == <<tosend, sentinel, closed, recv, stdin, reader, sender, child,
              upload>>
ancVars  == <<call>>
scnVars  == <<scn>>

-----------------------------------------------------------------------------
(* Generic helpers on sequences and finite maps.                           *)

IsPrefix(p, s) == Len(p) <= Len(s) /\ SubSeq(s, 1, Len(p)) = p

IsSuffix(p, s) ==
    Len(p) <= Len(s) /\ SubSeq(s, Len(s) - Len(p) + 1, Len(s)) = p

Range(s) == { s[i] : i \in DOMAIN s }

EmptyMap == [x \in {} |-> x]

MapPut(m, k, v) == [x \in (DOMAIN m) \cup {k} |-> IF x = k THEN v ELSE m[x]]

MapDel(m, k) == [x \in (DOMAIN m) \ {k} |-> m[x]]

-----------------------------------------------------------------------------
(* Peers and objects of the checked world.                                 *)

Local == "L"
PKs   == {"L", "A", "B"}

NoOid   == "none"      \* Option::None for an ObjectId
NullOid == "0"         \* ObjectId::null

\* Identity documents, signed-refs commits and payload commits.
IdOids   == {"I1", "I2", "IF", "IX"}
SigOids  == {"SA1", "SA2", "SA3", "SB1", "SL1"}
DataOids == {"C1", "C2", "C3"}
Oids     == IdOids \cup SigOids \cup DataOids

\* Parent links of the commit graph the peers share.
Parents(o) ==
    CASE o = "I2"  -> {"I1"}
      [] o = "SA2" -> {"SA1"}
      [] o = "C2"  -> {"C1"}
      [] o = "C4"  -> {"C2", "C3"}
      [] OTHER     -> {}

RECURSIVE Ancestors(_)
Ancestors(o) == Parents(o) \cup UNION { Ancestors(p) : p \in Parents(o) }

Closure(S) == S \cup UNION { Ancestors(o) : o \in S }

-----------------------------------------------------------------------------
(* Ref-name grammar (refs.rs).  A refname is its sequence of components.   *)

REFS_RAD_ID      == <<"refs", "rad", "id">>
REFS_RAD_SIGREFS == <<"refs", "rad", "sigrefs">>

Main == <<"refs", "heads", "main">>
Cob  == <<"refs", "cobs", "x">>
RadX == <<"refs", "rad", "xxx">>
Radio == <<"refs", "radio", "x">>

\* The path components of the checked world whose text begins with "rad"
RadPrefixed == {"rad", "radio"}

\* Qualified::with_namespace
with_namespace(r, q) == <<"refs", "namespaces", r>> \o q

\* RemoteRef::rad_id / RemoteRef::rad_sigrefs
rad_id(r)      == with_namespace(r, REFS_RAD_ID)
rad_sigrefs(r) == with_namespace(r, REFS_RAD_SIGREFS)

\* Qualified::to_namespaced: refs/namespaces/<ns>/<qualified name>
to_namespaced(n) ==
    /\ Len(n) >= 6
    /\ n[1] = "refs" /\ n[2] = "namespaces" /\ n[4] = "refs"

strip_namespace(n) == SubSeq(n, 4, Len(n))

\* parse_suffix inside TryFrom<Namespaced> for RemoteRef
parse_suffix(q) ==
    IF Len(q) = 3 /\ q[3] = "id" THEN "Id"
    ELSE IF Len(q) = 3 /\ q[3] = "sigrefs" THEN "SignedRefs"
    ELSE "Malformed"

\* TryFrom<Namespaced> for RemoteRef; kind "Err" is any refs::Error
RemoteRefFrom(n) ==
    IF ~to_namespaced(n) \/ n[3] \notin PKs
    THEN [kind |-> "Err", remote |-> "", special |-> "", suffix |-> <<>>]
    ELSE LET q == strip_namespace(n) IN
         IF q[2] = "rad"
         THEN IF parse_suffix(q) = "Malformed"
              THEN [kind |-> "Err", remote |-> "", special |-> "", suffix |-> <<>>]
              ELSE [kind |-> "Namespaced", remote |-> n[3],
                    special |-> parse_suffix(q), suffix |-> q]
         ELSE [kind |-> "Namespaced", remote |-> n[3],
               special |-> "", suffix |-> q]

\* TryFrom<Qualified> for Refname
RefnameFrom(n) ==
    IF to_namespaced(n) THEN RemoteRefFrom(n)
    ELSE IF n = REFS_RAD_ID
         THEN [kind |-> "RadId", remote |-> "", special |-> "", suffix |-> n]
         ELSE [kind |-> "Err", remote |-> "", special |-> "", suffix |-> <<>>]

is_special(p) == p.kind = "Namespaced" /\ p.special # ""

\* special_refs(remote)
special_refs(r) == { rad_id(r), rad_sigrefs(r) }

\* The refnames of the checked world, in a fixed iteration order.
PKOrder == <<"A", "B", "L">>

NameOrder ==
    <<REFS_RAD_ID,
      rad_id("A"), rad_sigrefs("A"), with_namespace("A", RadX),
      with_namespace("A", Main), with_namespace("A", Cob),
      with_namespace("A", Radio),
      rad_id("B"), rad_sigrefs("B"), with_namespace("B", RadX),
      with_namespace("B", Main), with_namespace("B", Cob),
      with_namespace("B", Radio),
      rad_id("L"), rad_sigrefs("L"), with_namespace("L", RadX),
      with_namespace("L", Main), with_namespace("L", Cob),
      with_namespace("L", Radio)>>

Names == Range(NameOrder)

\* The members of S in the iteration order `order`.
InOrder(S, order) == SelectSeq(order, LAMBDA x : x \in S)

-----------------------------------------------------------------------------
(* Object DB facade (gix/odb.rs).                                          *)

\* Odb::contains
contains(db, o) == o \in db

\* Odb::is_in_ancestry_path(new, old); "Missing" is Revwalk::MissingObject
RECURSIVE Walk(_, _)
Walk(db, o) ==
    IF o \notin db THEN {"missing"}
    ELSE {o} \cup UNION { Walk(db, p) : p \in Parents(o) }

\* Variant that asks for both objects before it compares them
is_in_ancestry_path_Present(db, new, old) ==
    IF ~contains(db, new) \/ ~contains(db, old) THEN "false"
    ELSE IF new = old THEN "true"
    ELSE LET seen == UNION { Walk(db, p) : p \in Parents(new) } IN
         IF old \in seen THEN "true"
         ELSE IF "missing" \in seen THEN "Missing"
         ELSE "false"

is_in_ancestry_path(db, new, old) ==
    IF new = old THEN "true"
    ELSE IF ~contains(db, new) \/ ~contains(db, old) THEN "false"
    ELSE LET seen == UNION { Walk(db, p) : p \in Parents(new) } IN
         IF old \in seen THEN "true"
         ELSE IF "missing" \in seen THEN "Missing"
         ELSE "false"

-----------------------------------------------------------------------------
(* Ref DB facade, read side (gix/refdb.rs).  A target is direct (an oid)   *)
(* or symbolic (a refname).                                                *)

Direct(o) == [sym |-> FALSE, oid |-> o, ref |-> <<>>]
Sym(n)    == [sym |-> TRUE, oid |-> NullOid, ref |-> n]

\* Snapshot::peel: follow symbolic links to an oid; NoOid when dangling
peel(db, n) ==
    IF n \notin DOMAIN db THEN NoOid
    ELSE IF ~db[n].sym THEN db[n].oid
    ELSE LET m == db[n].ref IN
         IF m \in DOMAIN db /\ ~db[m].sym THEN db[m].oid ELSE NoOid

\* Refdb::refname_to_id / Refdb::find_snapshot
refname_to_id(db, n) == peel(db, n)

\* Refdb::scan(prefix): the refs whose name is under `prefix`
scan(db, prefix) == { n \in DOMAIN db : IsPrefix(prefix, n) }

-----------------------------------------------------------------------------
(* Updates and the transactional write side (gix/refdb/update.rs,          *)
(* gix/refdb.rs).                                                          *)

Policies == {"Abort", "Reject", "Allow"}

\* enum Update
UDirect(n, o, no_ff) ==
    [kind |-> "Direct", name |-> n, target |-> o, tname |-> <<>>,
     policy |-> no_ff, prev |-> Direct(NullOid)]
USymbolic(n, tn, o, type_change) ==
    [kind |-> "Symbolic", name |-> n, target |-> o, tname |-> tn,
     policy |-> type_change, prev |-> Direct(NullOid)]
UPrune(n, pv) ==
    [kind |-> "Prune", name |-> n, target |-> NullOid, tname |-> <<>>,
     policy |-> "Allow", prev |-> pv]

\* enum Updated
Updated(k, n, pv, o, tn) ==
    [kind |-> k, name |-> n, prev |-> pv, target |-> o, tname |-> tn]

\* struct Edit: a RefEdit with the pre-image oid
MustNotExist == [must |-> "NotExist", val |-> Direct(NullOid)]
MustMatch(t) == [must |-> "Match", val |-> t]

EditUpdate(n, new, expected, pv) ==
    [name |-> n, change |-> "Update", new |-> new, expected |-> expected,
     prev |-> pv]
EditDelete(n, expected, pv) ==
    [name |-> n, change |-> "Delete", new |-> Direct(NullOid),
     expected |-> expected, prev |-> pv]

TERr(e)      == [tag |-> "Err", err |-> e, edits |-> <<>>]
TRejected    == [tag |-> "Rejected", err |-> "", edits |-> <<>>]
TEdits(es)   == [tag |-> "Edits", err |-> "", edits |-> es]

\* Variant of direct_edit that forces a non-fast-forward under Reject as it
\* does under Allow
direct_edit_Forced(db, objs, n, target, no_ff) ==
    LET tip == refname_to_id(db, n) IN
    IF n \notin DOMAIN db
    THEN TEdits(<<EditUpdate(n, Direct(target), MustNotExist, NullOid)>>)
    ELSE IF tip = NoOid THEN TERr("Find")
    ELSE IF is_in_ancestry_path(objs, target, tip) = "Missing" THEN TERr("Revwalk")
    ELSE IF is_in_ancestry_path(objs, target, tip) = "false" /\ no_ff = "Abort"
    THEN TERr("NonFF")
    ELSE TEdits(<<EditUpdate(n, Direct(target), MustMatch(Direct(tip)), tip)>>)

\* Refdb::direct_edit
direct_edit(db, objs, n, target, no_ff) ==
    LET tip == refname_to_id(db, n) IN
    IF n \notin DOMAIN db
    THEN TEdits(<<EditUpdate(n, Direct(target), MustNotExist, NullOid)>>)
    ELSE IF tip = NoOid THEN TERr("Find")
    ELSE LET is_ff == is_in_ancestry_path(objs, target, tip) IN
         IF is_ff = "Missing" THEN TERr("Revwalk")
         ELSE IF is_ff = "false"
         THEN CASE no_ff = "Abort"  -> TERr("NonFF")
                [] no_ff = "Reject" -> TRejected
                [] OTHER ->
                    TEdits(<<EditUpdate(n, Direct(target),
                                        MustMatch(Direct(tip)), tip)>>)
         ELSE TEdits(<<EditUpdate(n, Direct(target),
                                  MustMatch(Direct(tip)), tip)>>)

\* Refdb::symbolic_edit
symbolic_edit(db, objs, n, tn, target, type_change) ==
    LET srcDirect == n \in DOMAIN db /\ ~db[n].sym IN
    IF srcDirect /\ type_change = "Abort" THEN TERr("TypeChange")
    ELSE IF srcDirect /\ type_change = "Reject" THEN TRejected
    ELSE IF tn \notin DOMAIN db
    THEN TEdits(<<EditUpdate(tn, Direct(target), MustNotExist, NullOid),
                  EditUpdate(n, Sym(tn), MustNotExist, NullOid)>>)
    ELSE IF db[tn].sym THEN TERr("TargetSymbolic")
    ELSE LET dst == db[tn].oid
             anc == is_in_ancestry_path(objs, target, dst)
             src == IF n \in DOMAIN db THEN MustMatch(db[n]) ELSE MustNotExist
         IN
         IF target # dst /\ anc = "Missing" THEN TERr("Revwalk")
         ELSE IF target # dst /\ anc = "true"
         THEN TEdits(<<EditUpdate(tn, Direct(target),
                                  MustMatch(Direct(dst)), dst),
                       EditUpdate(n, Sym(tn), src, dst)>>)
         ELSE TEdits(<<EditUpdate(n, Sym(tn), src, dst)>>)

\* Refdb::to_edits
to_edits(db, objs, u) ==
    CASE u.kind = "Direct" ->
            direct_edit(db, objs, u.name, u.target, u.policy)
      [] u.kind = "Symbolic" ->
            symbolic_edit(db, objs, u.name, u.tname, u.target, u.policy)
      [] OTHER ->
            IF u.prev.sym /\ refname_to_id(db, u.prev.ref) = NoOid
            THEN TERr("Missing")
            ELSE TEdits(<<EditDelete(u.name, MustMatch(u.prev),
                            IF u.prev.sym
                            THEN refname_to_id(db, u.prev.ref)
                            ELSE u.prev.oid)>>)

\* Variant of InsertEdits in which the first edit of a ref is kept
RECURSIVE InsertEdits_KeepFirst(_, _)
InsertEdits_KeepFirst(m, es) ==
    IF es = <<>> THEN m
    ELSE InsertEdits_KeepFirst(
            IF Head(es).name \in DOMAIN m THEN m
            ELSE MapPut(m, Head(es).name, Head(es)), Tail(es))

\* HashMap::insert of the edits of one update, keyed by refname: a later
\* edit of the same ref replaces an earlier one
RECURSIVE InsertEdits(_, _)
InsertEdits(m, es) ==
    IF es = <<>> THEN m
    ELSE InsertEdits(MapPut(m, Head(es).name, Head(es)), Tail(es))

\* One iteration of the fold of Refdb::update: a conversion that failed is
\* dropped by filter_map(|r| r.ok()), a rejected update is collected
FoldOne(acc, u, e) ==
    CASE e.tag = "Err"      -> acc
      [] e.tag = "Rejected" -> [acc EXCEPT !.rejected = Append(@, u)]
      [] OTHER              -> [acc EXCEPT !.edits = InsertEdits(@, e.edits)]

\* The fold of Refdb::update over the converted updates
RECURSIVE FoldEdits(_, _, _, _)
FoldEdits(db, objs, batch, acc) ==
    IF batch = <<>> THEN acc
    ELSE FoldEdits(db, objs, Tail(batch),
                   FoldOne(acc, Head(batch), to_edits(db, objs, Head(batch))))

\* Transaction::prepare: every edit's expected previous value must hold
PrepareOk(db, edits) ==
    \A n \in DOMAIN edits :
        IF edits[n].expected.must = "NotExist"
        THEN n \notin DOMAIN db
        ELSE n \in DOMAIN db /\ db[n] = edits[n].expected.val

\* Transaction::commit: all edits become visible together
Commit(db, edits) ==
    LET gone == { n \in DOMAIN edits : edits[n].change = "Delete" } IN
    [n \in ((DOMAIN db) \cup (DOMAIN edits)) \ gone |->
        IF n \in DOMAIN edits THEN edits[n].new ELSE db[n]]

\* The Updated record Refdb::update builds for a committed edit
UpdatedOf(e) ==
    IF e.change = "Delete"
    THEN Updated("Prune", e.name, e.prev, NullOid, <<>>)
    ELSE IF e.new.sym
         THEN Updated("Symbolic", e.name, e.prev, NullOid, e.new.ref)
         ELSE Updated("Direct", e.name, e.prev, e.new.oid, <<>>)

NoApplied == [rejected |-> <<>>, updated |-> <<>>]

\* Applied::append
AppliedAppend(a, b) ==
    [rejected |-> a.rejected \o b.rejected, updated |-> a.updated \o b.updated]

\* The Updated records of a committed transaction
UpdatedSeq(edits, order) ==
    [i \in 1..Len(order) |-> UpdatedOf(edits[order[i]])]

\* Refdb::update, from the transaction on: prepare, commit, report
Transact(db, f) ==
    IF ~PrepareOk(db, f.edits)
    THEN [ok |-> FALSE, err |-> "Prepare", db |-> db, applied |-> NoApplied]
    ELSE [ok |-> TRUE, err |-> "", db |-> Commit(db, f.edits),
          applied |-> [rejected |-> f.rejected,
                       updated  |-> UpdatedSeq(f.edits,
                                      InOrder(DOMAIN f.edits, NameOrder))]]

\* Refdb::update
update(db, objs, batch) ==
    Transact(db, FoldEdits(db, objs, batch,
                           [rejected |-> <<>>, edits |-> EmptyMap]))

-----------------------------------------------------------------------------
(* The collaborators behind Handle.context: identity oracle, signed-refs   *)
(* store and tracking configuration, over the objects of the checked world.*)

\* Identity documents that verify, and their delegate sets.
ValidIds == {"I1", "I2", "IF"}

IdDelegates(o) == IF o = "I2" THEN {"A", "L"} ELSE {"A"}

\* Identities::verified(head): TRUE iff a verified identity is found at head
verified(objs, o) == o \in objs /\ o \in ValidIds

\* Identities::newer(a, b): the more recent one, "Fork" when unrelated
newer(a, b) ==
    IF a = b \/ a \in Ancestors(b) THEN b
    ELSE IF b \in Ancestors(a) THEN a
    ELSE "Fork"

\* The manifest a signed-refs commit carries, and the key that signed it.
\* What a manifest lists is up to its signer: the one of B lists two names
\* under refs/rad/ next to its branch.
Manifest(t) ==
    CASE t = "SA1" -> (Main :> "C1") @@ (Cob :> "C3")
      [] t = "SA2" -> (Main :> "C2")
      [] t = "SA3" -> (Main :> "C3")
      [] t = "SB1" -> (Main :> "C1") @@ (RadX :> "C1") @@ (REFS_RAD_ID :> "I1")
      [] OTHER     -> (Main :> "C1")

SignerOf(t) ==
    CASE t \in {"SA1", "SA2", "SA3"} -> "A"
      [] t = "SB1" -> "B"
      [] OTHER     -> "L"

NoSigrefs == [at |-> NoOid, refs |-> EmptyMap]

\* sigrefs::Store::load_at(tip, remote)
load_at(objs, t, r) ==
    IF t \in objs /\ t \in SigOids /\ SignerOf(t) = r
    THEN [at |-> t, refs |-> Manifest(t)]
    ELSE NoSigrefs

\* sigrefs::Store::load(remote): the tip is read from the stored rad/sigrefs
load(db, objs, r) ==
    IF refname_to_id(db, rad_sigrefs(r)) = NoOid THEN NoSigrefs
    ELSE load_at(objs, refname_to_id(db, rad_sigrefs(r)), r)

-----------------------------------------------------------------------------
(* In-memory staging refdb (gix/refdb/mem.rs) and FetchState (state.rs).   *)

\* InMemory::update for one update
InMemoryApply(m, u) ==
    CASE u.kind = "Prune" -> MapDel(m, u.name)
      [] OTHER            -> MapPut(m, u.name, u.target)

\* FetchState::default
FetchStateDefault ==
    [refs |-> EmptyMap, canonical_rad_id |-> NoOid, ids |-> EmptyMap,
     sigrefs |-> EmptyMap, tips |-> <<>>]

\* FetchState::update_all: queue every update, then apply it to staging
RECURSIVE update_all(_, _)
update_all(s, ups) ==
    IF ups = <<>> THEN s
    ELSE update_all([s EXCEPT !.tips = Append(@, Head(ups)),
                              !.refs = InMemoryApply(@, Head(ups))],
                    Tail(ups))

\* FetchState::clear_rad_refs
clear_rad_refs(s) == [s EXCEPT !.ids = EmptyMap, !.sigrefs = EmptyMap]

\* Cached::refname_to_id: staging first, then the real refdb
cached_refname_to_id(s, db, n) ==
    IF n \in DOMAIN s.refs THEN s.refs[n] ELSE refname_to_id(db, n)

\* sigrefs::Store::load for Cached: the observed tip first
cached_load(s, db, objs, r) ==
    IF r \in DOMAIN s.sigrefs THEN load_at(objs, s.sigrefs[r], r)
    ELSE load(db, objs, r)

\* A load that the store could not carry out
StoreError == [at |-> "error", refs |-> EmptyMap]

\* The ids of a selection in the order combined() chains them: must then
\* may, each a BTreeSet
Chain(must, may) ==
    [i \in 1..Cardinality(must) |->
        [id |-> InOrder(must, PKOrder)[i], required |-> TRUE]]
    \o [i \in 1..Cardinality(may) |->
        [id |-> InOrder(may, PKOrder)[i], required |-> FALSE]]

\* fold_ok over the chain: the first Err ends it
RECURSIVE fold_ok(_, _, _)
fold_ok(store, chain, acc) ==
    IF chain = <<>> THEN [ok |-> TRUE, err |-> "", id |-> "", refs |-> acc]
    ELSE IF store[Head(chain).id] = StoreError
    THEN [ok |-> FALSE, err |-> "Load", id |-> Head(chain).id,
          refs |-> EmptyMap]
    ELSE IF store[Head(chain).id] = NoSigrefs
    THEN IF Head(chain).required
         THEN [ok |-> FALSE, err |-> "NotFound", id |-> Head(chain).id,
               refs |-> EmptyMap]
         ELSE fold_ok(store, Tail(chain), acc)
    ELSE fold_ok(store, Tail(chain),
                 MapPut(acc, Head(chain).id, store[Head(chain).id]))

\* Variant of combined that treats every id as optional
combined_Optional(store, must, may) ==
    fold_ok(store, Chain({}, must \cup may), EmptyMap)

\* combined(store, Select {must, may}): store[id] is what load(id) answers
combined(store, must, may) == fold_ok(store, Chain(must, may), EmptyMap)

\* RemoteRefs::load(store, Select {must, may}) over the cached store
RemoteRefs_load(s, db, objs, must, may) ==
    combined([r \in PKs |-> cached_load(s, db, objs, r)], must, may)

-----------------------------------------------------------------------------
(* identity.rs                                                             *)

\* Variant of current that looks at refs/rad/id only
current_CanonicalOnly(s, db, objs, local) ==
    LET can == cached_refname_to_id(s, db, REFS_RAD_ID)
        tip == IF can # NoOid THEN can ELSE s.canonical_rad_id
    IN IF tip = NoOid THEN [err |-> "", id |-> NoOid]
       ELSE IF verified(objs, tip) THEN [err |-> "", id |-> tip]
       ELSE [err |-> "Identity", id |-> NoOid]

\* identity::current: [err, id]; id = NoOid when no rad/id is found
current(s, db, objs, local) ==
    LET own == cached_refname_to_id(s, db, rad_id(local))
        can == cached_refname_to_id(s, db, REFS_RAD_ID)
        tip == IF own # NoOid THEN own
               ELSE IF can # NoOid THEN can
               ELSE s.canonical_rad_id
    IN IF tip = NoOid THEN [err |-> "", id |-> NoOid]
       ELSE IF verified(objs, tip) THEN [err |-> "", id |-> tip]
       ELSE [err |-> "Identity", id |-> NoOid]

\* identity::of
of(s, db, objs, r) ==
    LET tip == cached_refname_to_id(s, db, rad_id(r)) IN
    IF tip = NoOid THEN [err |-> "", id |-> NoOid]
    ELSE IF verified(objs, tip) THEN [err |-> "", id |-> tip]
    ELSE [err |-> "Identity", id |-> NoOid]

\* identity::newest over the delegates in key order: [err, id]
RECURSIVE newest_loop(_, _, _, _, _, _)
newest_loop(s, db, objs, local, ids, acc) ==
    IF ids = <<>> THEN [err |-> "", id |-> acc]
    ELSE LET a == IF Head(ids) = local THEN current(s, db, objs, local)
                  ELSE of(s, db, objs, Head(ids))
         IN IF a.err # "" THEN [err |-> a.err, id |-> NoOid]
            ELSE IF a.id = NoOid THEN [err |-> "MissingId", id |-> NoOid]
            ELSE IF acc = NoOid
                 THEN newest_loop(s, db, objs, local, Tail(ids), a.id)
            ELSE IF newer(a.id, acc) = "Fork" THEN [err |-> "Fork", id |-> NoOid]
            ELSE newest_loop(s, db, objs, local, Tail(ids), newer(a.id, acc))

newest(s, db, objs, local, dels) ==
    newest_loop(s, db, objs, local, InOrder(dels, PKOrder), NoOid)

\* identity::requires_confirmation(identities, local, Some(ours), theirs)
requires_confirmation(local, ours, theirs) ==
    IF local \in IdDelegates(ours) /\ ours # theirs
    THEN IF newer(ours, theirs) = "Fork" THEN [err |-> "Fork", rc |-> FALSE]
         ELSE [err |-> "", rc |-> newer(ours, theirs) # ours]
    ELSE [err |-> "", rc |-> FALSE]

-----------------------------------------------------------------------------
(* The Step capability set (stage.rs) for the three steps "Clone",         *)
(* "Fetch" (verification refs) and "Refs" (data refs).                     *)

\* AsClone::should_keep: a pull passes AsClone::Local(local), a clone Keep
should_keep(md, key) == md = "clone" \/ key # Local

\* Step::ls_refs: the ref prefixes to ask for; {} is None (no ls-refs)
ls_refs(kind, rem, trk, dels, trusted) ==
    CASE kind = "Clone" -> {REFS_RAD_ID}
      [] kind = "Fetch" ->
            IF trk.scope = "All" THEN {<<"refs", "namespaces">>}
            ELSE UNION { special_refs(r) : r \in trk.remotes \cup dels }
      [] OTHER -> UNION { special_refs(r) : r \in DOMAIN trusted }

\* Transport::ls_refs: the advertised refs under one of the prefixes
Advertised(advert, prefixes) ==
    { n \in DOMAIN advert : \E p \in prefixes : IsPrefix(p, n) }

\* Step::ref_filter
ref_filter(kind, trusted, n) ==
    LET p == RefnameFrom(n) IN
    CASE kind = "Clone" -> is_special(p) \/ p.kind = "RadId"
      [] kind = "Fetch" -> is_special(p)
      [] OTHER -> \/ is_special(p) /\ p.remote \in DOMAIN trusted
                  \/ p.kind = "RadId"

\* ensure_refs(required, wants)
ensure_refs(required, wants) == wants = {} \/ required \subseteq wants

\* Step::pre_validate
pre_validate(kind, md, dels, refs) ==
    CASE kind = "Clone" -> ensure_refs({REFS_RAD_ID}, refs)
      [] kind = "Fetch" ->
            ensure_refs(UNION { special_refs(d) :
                                d \in { x \in dels : should_keep(md, x) } },
                        { n \in refs : RefnameFrom(n).kind = "Namespaced" })
      [] OTHER -> TRUE

\* Variant of CandidateAt that wants every offered tip the ref is not at,
\* whether or not the object store holds it
CandidateAt_NoOdbCheck(objs, cur, tip, anc) ==
    [want |-> cur # tip, tip |-> tip,
     haves |-> IF cur = NoOid THEN {} ELSE {cur}, err |-> FALSE]

\* One candidate of WantsHavesBuilder::add / Refs::wants_haves for a ref
\* whose stored tip is cur (NoOid when absent) and offered tip is tip;
\* anc is is_in_ancestry_path(cur, tip): [want, tip, haves, err]
CandidateAt(objs, cur, tip, anc) ==
    IF cur = NoOid
    THEN [want |-> ~contains(objs, tip), tip |-> tip, haves |-> {},
          err |-> FALSE]
    ELSE [want  |-> cur # tip /\ ~contains(objs, tip),
          tip   |-> tip,
          haves |-> {cur} \cup (IF anc = "true" THEN {tip} ELSE {}),
          err   |-> anc = "Missing"]

\* WantsHavesBuilder::add for a received ref
Candidate(db, objs, n, tip) ==
    CandidateAt(objs, refname_to_id(db, n), tip,
                is_in_ancestry_path(objs, refname_to_id(db, n), tip))

\* Refs::wants_haves for a signed ref: the stored tip is a have, no walk
SignedCandidate(db, objs, n, tip) ==
    CandidateAt(objs, refname_to_id(db, n), tip, "false")

\* Variant of build that never finds anything to fetch
build_NeverSome(cands) ==
    [err   |-> \E x \in cands : x.err,
     some  |-> FALSE,
     wants |-> { x.tip : x \in { y \in cands : y.want } }
               \ UNION { x.haves : x \in cands },
     haves |-> UNION { x.haves : x \in cands }]

\* WantsHavesBuilder::build: [err, some, wants, haves]; some = FALSE is
\* None (nothing to fetch)
build(cands) ==
    [err   |-> \E x \in cands : x.err,
     some  |-> { x.tip : x \in { y \in cands : y.want } }
               \ UNION { x.haves : x \in cands } # {},
     wants |-> { x.tip : x \in { y \in cands : y.want } }
               \ UNION { x.haves : x \in cands },
     haves |-> UNION { x.haves : x \in cands }]

\* Step::wants_haves
wants_haves(kind, db, objs, advert, trusted, refs) ==
    build({ Candidate(db, objs, n, advert[n]) : n \in refs }
          \cup
          (IF kind # "Refs" THEN {}
           ELSE UNION { { SignedCandidate(db, objs, with_namespace(r, q),
                                          trusted[r].refs[q])
                          : q \in DOMAIN trusted[r].refs }
                        : r \in DOMAIN trusted }))

\* ReceivedRef::as_verification_ref_update / RemoteRef::as_verification_ref_update
as_verification_ref_update(n, tip) == UDirect(n, tip, "Abort")

\* Clone::prepare: [err, tips]
Clone_prepare(s, objs, advert, rem, refs) ==
    IF s.canonical_rad_id = NoOid THEN [err |-> "Panic", tips |-> <<>>]
    ELSE IF ~verified(objs, s.canonical_rad_id)
    THEN [err |-> "Verification", tips |-> <<>>]
    ELSE IF rem \in IdDelegates(s.canonical_rad_id)
    THEN LET sp == InOrder({ n \in refs : is_special(RefnameFrom(n)) }, NameOrder)
         IN [err |-> "",
             tips |-> [i \in 1..Len(sp) |->
                          as_verification_ref_update(sp[i], advert[sp[i]])]]
    ELSE [err |-> "", tips |-> <<>>]

\* Variant of SpecialRefs_verify that passes on whatever was seen
SpecialRefs_verify_Either(sr) == sr.id \o sr.sigrefs

\* SpecialRefs::verify then SpecialRefs::unpack: both updates or nothing
SpecialRefs_verify(sr) ==
    IF sr.id # <<>> /\ sr.sigrefs # <<>> THEN sr.id \o sr.sigrefs ELSE <<>>

\* tips_inner before anything was seen, and after tips_inner.clear()
NoSpecialRefs == [id |-> <<>>, sigrefs |-> <<>>]

\* verification_refs, the inner loop over the refs of one remote in the order
\* they were received: [err, sr]
RECURSIVE tips_inner(_, _, _, _, _)
tips_inner(objs, advert, names, isDelegate, sr) ==
    IF names = <<>> THEN [err |-> FALSE, sr |-> sr]
    ELSE CASE RefnameFrom(Head(names)).special = "Id" ->
                IF verified(objs, advert[Head(names)])
                THEN tips_inner(objs, advert, Tail(names), isDelegate,
                        [sr EXCEPT !.id =
                           <<as_verification_ref_update(Head(names),
                                                        advert[Head(names)])>>])
                ELSE [err |-> isDelegate, sr |-> NoSpecialRefs]
           [] RefnameFrom(Head(names)).special = "SignedRefs" ->
                tips_inner(objs, advert, Tail(names), isDelegate,
                   [sr EXCEPT !.sigrefs =
                      <<as_verification_ref_update(Head(names),
                                                   advert[Head(names)])>>])
           [] OTHER -> tips_inner(objs, advert, Tail(names), isDelegate, sr)

\* verification_refs for one remote whose refs came in the order `names`
VerificationIn(objs, advert, names, isDelegate) ==
    IF tips_inner(objs, advert, names, isDelegate, NoSpecialRefs).err
    THEN [err |-> TRUE, tips |-> <<>>]
    ELSE [err |-> FALSE,
          tips |-> SpecialRefs_verify(
                     tips_inner(objs, advert, names, isDelegate,
                                NoSpecialRefs).sr)]

\* Variant of VerificationOf in which a delegate's failure is treated like a
\* non-delegate's: the remote is skipped and the loop goes on
VerificationOf_Lenient(objs, advert, refs, r, isDelegate) ==
    IF rad_id(r) \in refs /\ verified(objs, advert[rad_id(r)])
       /\ rad_sigrefs(r) \in refs
    THEN [err |-> FALSE,
          tips |-> <<as_verification_ref_update(rad_id(r), advert[rad_id(r)]),
                     as_verification_ref_update(rad_sigrefs(r),
                                                advert[rad_sigrefs(r)])>>]
    ELSE [err |-> FALSE, tips |-> <<>>]

\* verification_refs, the part for one remote: "Err" on a delegate whose
\* rad/id does not verify, else the 0 or 2 updates that remote contributes
VerificationOf(objs, advert, refs, r, isDelegate) ==
    LET hasId  == rad_id(r) \in refs
        hasSig == rad_sigrefs(r) \in refs
        idOk   == hasId /\ verified(objs, advert[rad_id(r)])
    IN IF hasId /\ ~idOk /\ isDelegate THEN [err |-> TRUE, tips |-> <<>>]
       ELSE IF idOk /\ hasSig
       THEN [err |-> FALSE,
             tips |-> <<as_verification_ref_update(rad_id(r), advert[rad_id(r)]),
                        as_verification_ref_update(rad_sigrefs(r),
                                                   advert[rad_sigrefs(r)])>>]
       ELSE [err |-> FALSE, tips |-> <<>>]

\* verification_refs: [err, tips], remotes visited in key order
RECURSIVE verification_loop(_, _, _, _, _, _)
verification_loop(objs, advert, refs, dels, rs, acc) ==
    IF rs = <<>> THEN [err |-> "", tips |-> acc]
    ELSE LET v == VerificationOf(objs, advert, refs, Head(rs), Head(rs) \in dels)
         IN IF v.err THEN [err |-> "Verification", tips |-> <<>>]
            ELSE verification_loop(objs, advert, refs, dels, Tail(rs),
                                   acc \o v.tips)

verification_refs(md, objs, advert, refs, dels) ==
    LET grouped == { RefnameFrom(n).remote :
                     n \in { x \in refs :
                             /\ RefnameFrom(x).kind = "Namespaced"
                             /\ should_keep(md, RefnameFrom(x).remote) } }
    IN verification_loop(objs, advert, refs, dels,
                         InOrder(grouped, PKOrder), <<>>)

\* Variant of PruneNames without the exemption of the refs/rad hierarchy
PruneNames_All(db, r, signed) ==
    { n \in scan(db, <<"refs", "namespaces", r>>) :
        to_namespaced(n) /\ n \notin signed }

\* str::starts_with(prefix_rad) in Refs::prepare: the text of the name begins
\* with "refs/namespaces/<r>/refs/rad", whatever follows those characters
starts_with_prefix_rad(n, r) ==
    /\ Len(n) >= 5
    /\ SubSeq(n, 1, 4) = <<"refs", "namespaces", r, "refs">>
    /\ n[5] \in RadPrefixed

\* Refs::prepare, the refs of `r` to prune: known under the remote's
\* namespace, not skipped by the prefix_rad test, and not in the signed set
PruneNames(db, r, signed) ==
    { n \in scan(db, <<"refs", "namespaces", r>>) :
        /\ to_namespaced(n)
        /\ ~starts_with_prefix_rad(n, r)
        /\ n \notin signed }

\* Variant of RefsOf that queues the signed refs with no_ff = Reject
RefsOf_Reject(db, trusted, r) ==
    LET signed == { with_namespace(r, q) : q \in DOMAIN trusted[r].refs }
        ups    == InOrder(signed, NameOrder)
    IN [i \in 1..Len(ups) |->
           UDirect(ups[i], trusted[r].refs[strip_namespace(ups[i])], "Reject")]

\* Refs::prepare, the part for one remote
RefsOf(db, trusted, r) ==
    LET signed == { with_namespace(r, q) : q \in DOMAIN trusted[r].refs }
        ups    == InOrder(signed, NameOrder)
        prs    == InOrder(PruneNames(db, r, signed), NameOrder)
    IN [i \in 1..Len(ups) |->
           UDirect(ups[i], trusted[r].refs[strip_namespace(ups[i])], "Allow")]
       \o
       [i \in 1..Len(prs) |-> UPrune(prs[i], db[prs[i]])]

\* Refs::prepare
RECURSIVE Refs_loop(_, _, _)
Refs_loop(db, trusted, rs) ==
    IF rs = <<>> THEN <<>>
    ELSE RefsOf(db, trusted, Head(rs)) \o Refs_loop(db, trusted, Tail(rs))

Refs_prepare(db, trusted) ==
    [err |-> "", tips |-> Refs_loop(db, trusted, InOrder(DOMAIN trusted, PKOrder))]

\* Step::prepare
prepare(kind, s, db, objs, advert, md, rem, dels, trusted, refs) ==
    CASE kind = "Clone" -> Clone_prepare(s, objs, advert, rem, refs)
      [] kind = "Fetch" -> verification_refs(md, objs, advert, refs, dels)
      [] OTHER          -> Refs_prepare(db, trusted)

-----------------------------------------------------------------------------
(* FetchState::step (state.rs).                                            *)

\* The loop of FetchState::step that records the tips seen in this round
Observe(s, advert, refs, wh) ==
    LET fresh(n) == wh.some /\ advert[n] \notin wh.haves
        idsOf  == { n \in refs : RefnameFrom(n).special = "Id" /\ fresh(n) }
        sigsOf == { n \in refs : RefnameFrom(n).special = "SignedRefs" /\ fresh(n) }
    IN [s EXCEPT
          !.ids = [r \in (DOMAIN @) \cup { RefnameFrom(n).remote : n \in idsOf } |->
                     IF rad_id(r) \in idsOf THEN advert[rad_id(r)] ELSE @[r]],
          !.sigrefs = [r \in (DOMAIN @) \cup { RefnameFrom(n).remote : n \in sigsOf } |->
                     IF rad_sigrefs(r) \in sigsOf THEN advert[rad_sigrefs(r)] ELSE @[r]],
          !.canonical_rad_id = IF REFS_RAD_ID \in refs THEN advert[REFS_RAD_ID] ELSE @]

StepFail(s, objs, e, stage, w) ==
    [ok |-> FALSE, err |-> e, st |-> s, odb |-> objs, stage |-> stage,
     wire |-> w, tips |-> <<>>]

\* FetchState::step, the end: queue what prepare returned
step_update(s, objs, w, up) ==
    IF up.err # "" THEN StepFail(s, objs, up.err, "prepare", w)
    ELSE [ok |-> TRUE, err |-> "", st |-> update_all(s, up.tips), odb |-> objs,
          stage |-> "done", wire |-> w, tips |-> up.tips]

\* What the serving side answers to a fetch: the connection breaks ("io"),
\* the response carries no pack ("none"), the pack lacks one of the wanted
\* tips ("partial"), or it holds the wants and their history ("full")
PackOutcomes == {"io", "none", "partial", "full"}

\* The objects the index of the written pack lists
PackIndex(wants, pack) ==
    CASE pack = "full"    -> Closure(wants)
      [] pack = "partial" ->
            Closure(wants \ {CHOOSE o \in wants : o \notin Closure(wants \ {o})})
      [] OTHER            -> {}

\* Variant of Transport_fetch that takes any written pack for an answer
Transport_fetch_Unchecked(objs, wants, pack) ==
    IF pack \in {"io", "none"} THEN [ok |-> FALSE, odb |-> objs]
    ELSE [ok |-> TRUE, odb |-> objs \cup PackIndex(wants, pack)]

\* Transport::fetch: [ok, odb].  The pack writer has put the pack under
\* objects/pack before the index is looked through for the wants
Transport_fetch(objs, wants, pack) ==
    IF pack \in {"io", "none"} THEN [ok |-> FALSE, odb |-> objs]
    ELSE [ok  |-> \A oid \in wants : oid \in PackIndex(wants, pack),
          odb |-> objs \cup PackIndex(wants, pack)]

\* FetchState::step, from the fetch on
step_fetch(kind, s, db, objs, advert, md, rem, dels, trusted, w, refs, wh, pack) ==
    IF wh.err THEN StepFail(s, objs, "WantsHaves", "wants", w)
    ELSE IF ~wh.some
    THEN step_update(Observe(s, advert, refs, wh), objs, w,
                     prepare(kind, Observe(s, advert, refs, wh), db, objs,
                             advert, md, rem, dels, trusted, refs))
    ELSE IF ~Transport_fetch(objs, wh.wants, pack).ok
    THEN StepFail(s, Transport_fetch(objs, wh.wants, pack).odb, "Io", "fetch",
                  Append(w, "fetch"))
    ELSE step_update(Observe(s, advert, refs, wh),
                     Transport_fetch(objs, wh.wants, pack).odb,
                     Append(w, "fetch"),
                     prepare(kind, Observe(s, advert, refs, wh), db,
                             Transport_fetch(objs, wh.wants, pack).odb,
                             advert, md, rem, dels, trusted, refs))

\* FetchState::step, from the received refs on
step_received(kind, s, db, objs, advert, md, rem, dels, trusted, w, refs, pack) ==
    IF ~pre_validate(kind, md, dels, refs)
    THEN StepFail(s, objs, "MissingRequiredRefs", "layout", w)
    ELSE step_fetch(kind, s, db, objs, advert, md, rem, dels, trusted, w, refs,
                    wants_haves(kind, db, objs, advert, trusted, refs),
                    pack)

\* FetchState::step, from the answer of Step::ls_refs on: no prefix, no
\* ls-refs request
step_ls_refs(kind, s, db, objs, advert, md, rem, dels, trusted, prefixes, lsOk, pack) ==
    IF prefixes = {}
    THEN step_received(kind, s, db, objs, advert, md, rem, dels, trusted,
                       <<>>, {}, pack)
    ELSE IF ~lsOk THEN StepFail(s, objs, "Io", "ls", <<"ls-refs">>)
    ELSE step_received(kind, s, db, objs, advert, md, rem, dels, trusted,
                       <<"ls-refs">>,
                       { n \in Advertised(advert, prefixes) :
                           ref_filter(kind, trusted, n) },
                       pack)

\* FetchState::step for the step `kind`; lsOk is the outcome of the
\* transport's ls-refs, pack the answer to its fetch
step(kind, s, db, objs, advert, md, rem, trk, dels, trusted, lsOk, pack) ==
    step_ls_refs(kind, s, db, objs, advert, md, rem, dels, trusted,
                 ls_refs(kind, rem, trk, dels, trusted), lsOk, pack)

\* The refs a step receives: the answer to ls-refs through Step::ref_filter
received(kind, advert, rem, trk, dels, trusted) ==
    { n \in Advertised(advert, ls_refs(kind, rem, trk, dels, trusted)) :
        ref_filter(kind, trusted, n) }

\* The fetch request a step wrote, if it wrote one: the step kind, the tips
\* of the received refs, the tips of the loaded manifests, the wants sent and
\* the object store they were computed against
FetchRequests(kind, db, objs, advert, rem, trk, dels, trusted, r) ==
    IF "fetch" \notin Range(r.wire) THEN {}
    ELSE { [kind   |-> kind,
            tips   |-> { advert[n] :
                         n \in received(kind, advert, rem, trk, dels, trusted) },
            signed |-> UNION { Range(trusted[x].refs) : x \in DOMAIN trusted },
            wants  |-> wants_haves(kind, db, objs, advert, trusted,
                          received(kind, advert, rem, trk, dels, trusted)).wants,
            objs   |-> objs] }

\* The answer a step got to the fetch it wrote, if it wrote one, and what
\* the step made of it: the wants, whether a pack was written and what it
\* added to the object store, whether the step went on past the fetch, whether it
\* returned Ok, what it queued, and whether it left the FetchState `s` as
\* it was
FetchAnswers(kind, s, db, objs, advert, rem, trk, dels, trusted, pack, r) ==
    IF "fetch" \notin Range(r.wire) THEN {}
    ELSE { [wants    |-> wants_haves(kind, db, objs, advert, trusted,
                            received(kind, advert, rem, trk, dels, trusted)).wants,
            received |-> pack \in {"partial", "full"},
            index    |-> r.odb \ objs,
            fetch_ok |-> r.stage # "fetch",
            step_ok  |-> r.ok,
            queued   |-> r.tips,
            kept     |-> r.st = s] }

-----------------------------------------------------------------------------
(* Validation (sigrefs/validation.rs): the set of warnings.                *)

Warn(w, n) == [w |-> w, name |-> n]

validate(db, r, sr) ==
    LET found == scan(db, <<"refs", "namespaces", r>>)
        mine  == { n \in found : RemoteRefFrom(n).kind = "Namespaced"
                                  /\ RemoteRefFrom(n).remote = r }
        seen  == { strip_namespace(n) : n \in mine }
        perRef(n) ==
            LET p == RemoteRefFrom(n) IN
            IF p.kind = "Err" THEN {Warn("BadRef", n)}
            ELSE IF p.remote # r THEN {}
            ELSE IF p.special = "Id" THEN {}
            ELSE IF p.special = "SignedRefs"
                 THEN IF peel(db, n) # sr.at THEN {Warn("MismatchedRef", n)} ELSE {}
            ELSE IF p.suffix \notin DOMAIN sr.refs
                 THEN {Warn("AdditionalRef", n)}
            ELSE IF sr.refs[p.suffix] # peel(db, n)
                 THEN {Warn("MismatchedRef", n)}
            ELSE {}
    IN UNION { perRef(n) : n \in found }
       \cup
       (IF found = {} THEN {Warn("NoData", <<r>>)}
        ELSE (IF REFS_RAD_ID \notin seen THEN {Warn("MissingRadId", <<r>>)} ELSE {})
             \cup
             (IF REFS_RAD_SIGREFS \notin seen
              THEN {Warn("MissingRadSigRefs", <<r>>)} ELSE {})
             \cup
             { Warn("MissingRef", with_namespace(r, q)) :
               q \in (DOMAIN sr.refs) \ seen })

\* The two validation loops that close exchange()
ExchangeWarnings(db, objs, md, trusted) ==
    UNION { validate(db, r, trusted[r]) : r \in DOMAIN trusted }
    \cup
    UNION { IF load(db, objs, r) = NoSigrefs THEN {Warn("NoData", <<r>>)}
            ELSE validate(db, r, load(db, objs, r))
            : r \in { x \in DOMAIN trusted : should_keep(md, x) } }

-----------------------------------------------------------------------------
(* The checked world: repositories a handle can start from, what the       *)
(* serving peer may advertise, and the tracking configurations.            *)

\* Number of replications run one after the other on the same handle
MaxRounds == 2

\* Merge of finite maps, the left one wins
Merge(f, g) == [x \in (DOMAIN f) \cup (DOMAIN g) |->
                   IF x \in DOMAIN f THEN f[x] ELSE g[x]]

\* A namespace with its two special refs and its signed data refs
NamespaceOf(r, id, sig) ==
    Merge((rad_id(r) :> Direct(id)) @@ (rad_sigrefs(r) :> Direct(sig)),
          [n \in { with_namespace(r, q) : q \in DOMAIN Manifest(sig) } |->
              Direct(Manifest(sig)[strip_namespace(n)])])

\* Repositories left behind by earlier replications.  The store holds loose
\* refs only: a handle cannot get past Refdb::snapshot once a packed-refs
\* file exists (see SpecSnap).
SeedA  == Merge(REFS_RAD_ID :> Direct("I1"), NamespaceOf("A", "I1", "SA1"))
SeedAB == Merge(Merge(SeedA, NamespaceOf("B", "I1", "SB1")),
                (with_namespace("B", RadX) :> Direct("C1"))
                @@ (with_namespace("B", Cob) :> Direct("C3"))
                @@ (with_namespace("B", Radio) :> Direct("C1")))
SeedL  == Merge(Merge(REFS_RAD_ID :> Direct("I2"), NamespaceOf("A", "I2", "SA1")),
                NamespaceOf("L", "I2", "SL1"))
Seeds  == {SeedA, SeedAB, SeedL}

\* The objects a repository with these refs holds
ObjectsOf(db) == Closure({ db[n].oid : n \in DOMAIN db })

\* What the serving peer advertises for one namespace: nothing, or any of
\* the two special refs
AdvNamespace(r, id, sig) ==
    Merge(IF id = NoOid THEN EmptyMap ELSE rad_id(r) :> id,
          IF sig = NoOid THEN EmptyMap ELSE rad_sigrefs(r) :> sig)

Advertisements ==
    { Merge(Merge(IF can = NoOid THEN EmptyMap ELSE REFS_RAD_ID :> can,
                  AdvNamespace("A", a[1], a[2])),
            Merge(AdvNamespace("B", b[1], b[2]), AdvNamespace("L", l[1], l[2])))
      : can \in {NoOid, "I1", "I2"},
        a \in {NoOid, "I1", "I2", "IX", "IF"} \X {NoOid, "SA1", "SA2", "SA3"},
        b \in {<<NoOid, NoOid>>, <<"I1", "SB1">>, <<"IX", "SB1">>, <<"I1", NoOid>>},
        l \in {<<NoOid, NoOid>>, <<"I2", "SL1">>} }

Trackings ==
    { [scope |-> "Trusted", remotes |-> {}],
      [scope |-> "Trusted", remotes |-> {"B"}],
      [scope |-> "All",     remotes |-> {"A", "B"}],
      [scope |-> "All",     remotes |-> {"A", "B", "L"}] }

NoResult == [ok |-> FALSE, err |-> "", applied |-> NoApplied, rc |-> FALSE,
             validation |-> {}]

NoHist(db) ==
    [refdb0 |-> db, prev_ok |-> FALSE, queued |-> {}, vbatch |-> <<>>,
     cstage |-> "none", vstage |-> "none", dstage |-> "none", commits |-> 0,
     sent |-> {}, packs |-> {}]

IdleUpdate == /\ ubatch = <<>>
              /\ uout = [ok |-> FALSE, err |-> "", db |-> EmptyMap,
                         applied |-> NoApplied]
IdleSnap   == /\ slot = [some |-> FALSE, buf |-> 0, mtime |-> 0]
              /\ disk = [exists |-> FALSE, mtime |-> 0, content |-> 0]
              /\ lock = [readers |-> {}, writer |-> 0]
              /\ th   = <<>>
IdleUpload == /\ tosend = 0 /\ sentinel = FALSE /\ closed = FALSE
              /\ recv = <<>> /\ stdin = <<>>
              /\ reader = "finished" /\ sender = "finished"
              /\ child = "killed" /\ upload = "returned"
NoCall == [new |-> NoOid, old |-> NoOid, out |-> "none"]
IdleAncestry == call = NoCall
NoPrefix == [some |-> FALSE, path |-> <<>>]
IdleScan == scn = [map |-> EmptyMap, at |-> "none", prefix |-> NoPrefix,
                   inner |-> <<>>, out |-> {}]

Init ==
    /\ mode \in {"pull", "clone"}
    /\ refdb \in (IF mode = "clone" THEN {EmptyMap} ELSE Seeds)
    /\ odb = ObjectsOf(refdb)
    /\ remote \in {"A", Local}
    /\ tracked \in Trackings
    /\ adv \in Advertisements
    \* a pull never asks for the canonical refs/rad/id: one value is enough
    /\ mode = "pull" => (REFS_RAD_ID \in DOMAIN adv /\ adv[REFS_RAD_ID] = "I1")
    /\ pc = "idle"
    /\ round = 1
    /\ st = FetchStateDefault
    /\ anchor = NoOid
    /\ delegates = {}
    /\ signed_refs = EmptyMap
    /\ result = NoResult
    /\ wire = <<>>
    /\ hist = NoHist(refdb)
    /\ IdleUpdate
    /\ IdleSnap
    /\ IdleUpload
    /\ IdleAncestry
    /\ IdleScan

-----------------------------------------------------------------------------
(* The replication driver: pull / clone (lib.rs) and exchange              *)
(* (protocol.rs).                                                          *)

\* The replication returns `res`; the handle is left as it is
Finish(res) ==
    /\ pc' = "done"
    /\ result' = res

Fail(e) == Finish([result EXCEPT !.ok = FALSE, !.err = e])

\* The delegates exchange() keeps: AsClone::should_keep over the anchor's
KeptDelegates(md, id) == { d \in IdDelegates(id) : should_keep(md, d) }

\* Variant of Pull that opens the connection before it looks at `remote`
Pull_HandshakeFirst ==
    /\ pc = "idle" /\ mode = "pull"
    /\ wire' = Append(wire, "handshake")
    /\ st' = FetchStateDefault
    /\ IF Local = remote THEN Fail("ReplicateSelf")
       ELSE IF current(FetchStateDefault, refdb, odb, Local).id = NoOid
       THEN Fail("MissingRadId")
       ELSE pc' = "verify" /\ UNCHANGED result
    /\ anchor' = current(FetchStateDefault, refdb, odb, Local).id
    /\ delegates' = IF anchor' = NoOid THEN {}
                    ELSE KeptDelegates(mode, anchor')
    /\ UNCHANGED <<refdb, odb, mode, remote, tracked, adv, round, signed_refs,
                   hist, updVars, snapVars, uplVars, ancVars, scnVars>>

\* pull(), up to the call of exchange()
Pull ==
    /\ pc = "idle" /\ mode = "pull"
    /\ \E cur \in { current(FetchStateDefault, refdb, odb, Local) } :
       IF Local = remote
       THEN /\ Fail("ReplicateSelf")
            /\ UNCHANGED <<wire, anchor, delegates, st>>
       ELSE IF cur.err # ""
       THEN /\ Fail("Identity")
            /\ UNCHANGED <<wire, anchor, delegates, st>>
       ELSE IF cur.id = NoOid
       THEN /\ Fail("MissingRadId")
            /\ UNCHANGED <<wire, anchor, delegates, st>>
       ELSE \E hsOk \in BOOLEAN :
            /\ wire' = Append(wire, "handshake")
            /\ st' = FetchStateDefault
            /\ IF hsOk
               THEN /\ anchor' = cur.id
                    /\ delegates' = KeptDelegates(mode, cur.id)
                    /\ pc' = "verify"
                    /\ UNCHANGED result
               ELSE /\ Fail("Handshake")
                    /\ UNCHANGED <<anchor, delegates>>
    /\ UNCHANGED <<refdb, odb, mode, remote, tracked, adv, round, signed_refs,
                   hist, updVars, snapVars, uplVars, ancVars, scnVars>>

\* clone(), up to the initial step
Clone ==
    /\ pc = "idle" /\ mode = "clone"
    /\ IF Local = remote
       THEN /\ Fail("ReplicateSelf")
            /\ UNCHANGED <<wire, st>>
       ELSE \E hsOk \in BOOLEAN :
            /\ wire' = Append(wire, "handshake")
            /\ st' = FetchStateDefault
            /\ IF hsOk THEN pc' = "clone_step" /\ UNCHANGED result
               ELSE Fail("Handshake")
    /\ UNCHANGED <<refdb, odb, mode, remote, tracked, adv, round, anchor,
                   delegates, signed_refs, hist, updVars, snapVars, uplVars, ancVars, scnVars>>

\* clone(): state.step(stage::Clone) and the anchor read from its result
CloneStep ==
    /\ pc = "clone_step"
    /\ \E lsOk \in BOOLEAN, pack \in PackOutcomes :
        \E r \in { step("Clone", st, refdb, odb, adv, mode, remote, tracked,
                      {}, EmptyMap, lsOk, pack) } :
           /\ odb' = r.odb
           /\ wire' = wire \o r.wire
           /\ st' = r.st
           /\ hist' = [hist EXCEPT !.queued = @ \cup Range(r.tips),
                                   !.cstage = r.stage,
                                   !.sent = @ \cup
                                     FetchRequests("Clone", refdb, odb, adv,
                                        remote, tracked, {}, EmptyMap, r),
                                   !.packs = @ \cup
                                     FetchAnswers("Clone", st, refdb, odb, adv,
                                        remote, tracked, {}, EmptyMap, pack, r)]
           /\ IF r.ok
              THEN /\ anchor' = r.st.canonical_rad_id
                   /\ delegates' = KeptDelegates(mode, r.st.canonical_rad_id)
                   /\ pc' = "verify"
                   /\ UNCHANGED result
              ELSE /\ Fail(r.err)
                   /\ UNCHANGED <<anchor, delegates>>
    /\ UNCHANGED <<refdb, mode, remote, tracked, adv, round, signed_refs,
                   updVars, snapVars, uplVars, ancVars, scnVars>>

\* exchange(): state.step(stage::Fetch), the verification refs
VerificationStep ==
    /\ pc = "verify"
    /\ \E lsOk \in BOOLEAN, pack \in PackOutcomes :
        \E r \in { step("Fetch", st, refdb, odb, adv, mode, remote, tracked,
                      delegates, EmptyMap, lsOk, pack) } :
           /\ odb' = r.odb
           /\ wire' = wire \o r.wire
           /\ st' = r.st
           /\ hist' = [hist EXCEPT !.queued = @ \cup Range(r.tips),
                                   !.vbatch = r.tips,
                                   !.vstage = r.stage,
                                   !.sent = @ \cup
                                     FetchRequests("Fetch", refdb, odb, adv,
                                        remote, tracked, delegates, EmptyMap,
                                        r),
                                   !.packs = @ \cup
                                     FetchAnswers("Fetch", st, refdb, odb, adv,
                                        remote, tracked, delegates, EmptyMap,
                                        pack, r)]
           /\ IF r.ok THEN pc' = "load" /\ UNCHANGED result
              ELSE Fail(r.err)
    /\ UNCHANGED <<refdb, mode, remote, tracked, adv, round, anchor, delegates,
                   signed_refs, updVars, snapVars, uplVars, ancVars, scnVars>>

\* exchange(): RemoteRefs::load, identity::newest and requires_confirmation
LoadSigrefs ==
    /\ pc = "load"
    /\ \E sr \in { RemoteRefs_load(st, refdb, odb, delegates,
                                   tracked.remotes \ delegates) } :
       \E nw \in { newest(st, refdb, odb, Local, delegates) } :
       \E rc \in { requires_confirmation(Local, anchor, nw.id) } :
          IF ~sr.ok THEN Fail("RemoteRefs") /\ UNCHANGED signed_refs
          ELSE IF delegates # {} /\ nw.err # ""
          THEN Fail(nw.err) /\ UNCHANGED signed_refs
          ELSE IF delegates # {} /\ rc.err # ""
          THEN Fail(rc.err) /\ UNCHANGED signed_refs
          ELSE /\ signed_refs' = sr.refs
               /\ result' = [result EXCEPT !.rc = delegates # {} /\ rc.rc]
               /\ pc' = "commit1"
    /\ UNCHANGED <<refdb, odb, mode, remote, tracked, adv, round, st, anchor,
                   delegates, wire, hist, updVars, snapVars, uplVars, ancVars, scnVars>>

\* Vec::swap_remove(i): the last element takes the place of the i-th
swap_remove(v, i) ==
    IF i = Len(v) THEN SubSeq(v, 1, Len(v) - 1)
    ELSE [SubSeq(v, 1, Len(v) - 1) EXCEPT ![i] = v[Len(v)]]

\* The name the first commit of exchange() looks at for an update
TipName(u) == IF u.kind = "Symbolic" THEN u.tname ELSE u.name

\* Does the first commit of exchange() take this pending update?
IsIdentityTip(u) ==
    u.kind \in {"Direct", "Symbolic"} /\ IsSuffix(REFS_RAD_ID, TipName(u))

\* The while loop of exchange() that moves updates out of `pending`:
\* [tips, pending]
RECURSIVE IdentityTips(_, _, _)
IdentityTips(pending, i, tips) ==
    IF i > Len(pending) THEN [tips |-> tips, pending |-> pending]
    ELSE IF IsIdentityTip(pending[i])
         THEN IdentityTips(swap_remove(pending, i), i, Append(tips, pending[i]))
         ELSE IdentityTips(pending, i + 1, tips)

\* exchange(): "updating identity tips", then state.clear_rad_refs()
CommitTips ==
    /\ pc = "commit1"
    /\ \E part \in { IdentityTips(st.tips, 1, <<>>) } :
       \E r \in { update(refdb, odb, part.tips) } :
          IF r.ok
          THEN /\ refdb' = r.db
               /\ st' = clear_rad_refs([st EXCEPT !.tips = part.pending])
               /\ result' = [result EXCEPT !.applied = r.applied]
               /\ hist' = [hist EXCEPT !.commits = @ + 1]
               /\ pc' = "data"
          ELSE /\ Fail(r.err)
               /\ UNCHANGED <<refdb, st, hist>>
    /\ UNCHANGED <<odb, mode, remote, tracked, adv, round, anchor, delegates,
                   signed_refs, wire, updVars, snapVars, uplVars, ancVars, scnVars>>

\* Variant of DataStep in which the step writes what it queued straight to
\* the real refdb
DataStep_Committing ==
    /\ pc = "data"
    /\ \E lsOk \in BOOLEAN, pack \in PackOutcomes :
        \E r \in { step("Refs", st, refdb, odb, adv, mode, remote, tracked,
                      delegates, signed_refs, lsOk, pack) } :
           /\ odb' = r.odb
           /\ wire' = wire \o r.wire
           /\ st' = r.st
           /\ refdb' = update(refdb, r.odb, r.tips).db
           /\ hist' = [hist EXCEPT !.queued = @ \cup Range(r.tips),
                                   !.dstage = r.stage]
           /\ IF r.ok THEN pc' = "commit2" /\ UNCHANGED result
              ELSE Fail(r.err)
    /\ UNCHANGED <<mode, remote, tracked, adv, round, anchor, delegates,
                   signed_refs, updVars, snapVars, uplVars, ancVars, scnVars>>

\* exchange(): state.step(stage::Refs), the data refs
DataStep ==
    /\ pc = "data"
    /\ \E lsOk \in BOOLEAN, pack \in PackOutcomes :
        \E r \in { step("Refs", st, refdb, odb, adv, mode, remote, tracked,
                      delegates, signed_refs, lsOk, pack) } :
           /\ odb' = r.odb
           /\ wire' = wire \o r.wire
           /\ st' = r.st
           /\ hist' = [hist EXCEPT !.queued = @ \cup Range(r.tips),
                                   !.dstage = r.stage,
                                   !.sent = @ \cup
                                     FetchRequests("Refs", refdb, odb, adv,
                                        remote, tracked, delegates,
                                        signed_refs, r),
                                   !.packs = @ \cup
                                     FetchAnswers("Refs", st, refdb, odb, adv,
                                        remote, tracked, delegates,
                                        signed_refs, pack, r)]
           /\ IF r.ok THEN pc' = "commit2" /\ UNCHANGED result
              ELSE Fail(r.err)
    /\ UNCHANGED <<refdb, mode, remote, tracked, adv, round, anchor, delegates,
                   signed_refs, updVars, snapVars, uplVars, ancVars, scnVars>>

\* exchange(): "updating tips", the drain of everything still pending
CommitData ==
    /\ pc = "commit2"
    /\ \E r \in { update(refdb, odb, st.tips) } :
       IF r.ok
       THEN /\ refdb' = r.db
            /\ st' = [st EXCEPT !.tips = <<>>]
            /\ result' = [result EXCEPT
                            !.applied = AppliedAppend(@, r.applied)]
            /\ hist' = [hist EXCEPT !.commits = @ + 1]
            /\ pc' = "validate"
       ELSE /\ Fail(r.err)
            /\ UNCHANGED <<refdb, st, hist>>
    /\ UNCHANGED <<odb, mode, remote, tracked, adv, round, anchor, delegates,
                   signed_refs, wire, updVars, snapVars, uplVars, ancVars, scnVars>>

\* exchange(): the two validation loops, transport.done() and the result.
\* The loops debug_assert! that no warning was found: a build with debug
\* assertions panics there, a release build carries the warnings on.
ValidateDone ==
    /\ pc = "validate"
    /\ \E ws \in { ExchangeWarnings(refdb, odb, mode, signed_refs) } :
       \E debug \in BOOLEAN, doneOk \in BOOLEAN :
          IF debug /\ ws # {}
          THEN Fail("Panic") /\ UNCHANGED wire
          ELSE /\ wire' = Append(wire, "done")
               /\ IF doneOk
                  THEN Finish([result EXCEPT !.ok = TRUE, !.validation = ws])
                  ELSE Fail("Io")
    /\ UNCHANGED <<refdb, odb, mode, remote, tracked, adv, round, st, anchor,
                   delegates, signed_refs, hist, updVars, snapVars, uplVars, ancVars, scnVars>>

\* The caller pulls again on the same handle: same remote, same
\* advertisement, same tracking configuration, no other writer
Restart ==
    /\ pc = "done"
    /\ round < MaxRounds
    /\ round' = round + 1
    /\ mode' = "pull"
    /\ pc' = "idle"
    /\ st' = FetchStateDefault
    /\ anchor' = NoOid
    /\ delegates' = {}
    /\ signed_refs' = EmptyMap
    /\ result' = NoResult
    /\ wire' = <<>>
    /\ hist' = [NoHist(refdb) EXCEPT !.prev_ok = result.ok /\ mode = "pull"]
    /\ UNCHANGED <<refdb, odb, remote, tracked, adv, updVars, snapVars, uplVars, ancVars, scnVars>>

Next ==
    \/ Pull
    \/ Clone
    \/ CloneStep
    \/ VerificationStep
    \/ LoadSigrefs
    \/ CommitTips
    \/ DataStep
    \/ CommitData
    \/ ValidateDone
    \/ Restart

Spec == Init /\ [][Next]_vars

TypeOK ==
    /\ pc \in {"idle", "clone_step", "verify", "load", "commit1", "data",
               "commit2", "validate", "done"}
    /\ DOMAIN refdb \subseteq Names
    /\ odb \subseteq Oids
    /\ round \in 1..MaxRounds

-----------------------------------------------------------------------------
(* Properties of the replication driver, checked under Spec.               *)

Returned    == pc = "done"
ReturnedOk  == pc = "done" /\ result.ok
ReturnedErr == pc = "done" /\ ~result.ok

\* refs/namespaces/<pk>/refs/rad/...
IsRadName(n) ==
    Len(n) >= 5 /\ n[1] = "refs" /\ n[2] = "namespaces" /\ n[4] = "refs"
                /\ n[5] = "rad"

\* The namespace an update writes to ("" outside refs/namespaces)
NamespaceOfName(n) ==
    IF Len(n) >= 3 /\ n[1] = "refs" /\ n[2] = "namespaces" THEN n[3] ELSE ""

\* C1: after an exchange that returns Ok, every remote of the must set (the
\* kept delegates) has, under its namespace, exactly its signed refs plus
\* rad/id and rad/sigrefs, each at its signed oid: validate finds nothing.
C1_MustNamespacesValidate ==
    ReturnedOk =>
        \A r \in delegates : validate(refdb, r, signed_refs[r]) = {}

\* An update of the verification batch that would change the refdb the
\* replication started from, and whether the refdb now holds it
Effective(u) ==
    ~(u.name \in DOMAIN hist.refdb0 /\ hist.refdb0[u.name] = Direct(u.target))
Landed(u) == u.name \in DOMAIN refdb /\ refdb[u.name] = Direct(u.target)

\* C2: after an exchange that returns an error, the refdb holds every
\* rad/id and rad/sigrefs update the verification step queued, or none of
\* them, never a strict non-empty part of that batch.
C2_VerificationBatchAllOrNone ==
    ReturnedErr =>
        \/ \A u \in { v \in Range(hist.vbatch) : Effective(v) } : Landed(u)
        \/ \A u \in { v \in Range(hist.vbatch) : Effective(v) } : ~Landed(u)

\* What a transition out of a step may do to the refdb and the result
StepFrame ==
    pc \in {"clone_step", "verify", "data"} =>
        /\ refdb' = refdb
        /\ (pc' = "done" => (~result'.ok /\ result'.err # ""))

\* C3: FetchState::step never changes the real refdb, whatever the step and
\* its outcome, and a failed step makes the exchange return the error with
\* the staged updates uncommitted.
C3_StepLeavesRefdb == [][StepFrame]_vars

C3_Witness ==
    /\ ReturnedErr
    /\ hist.dstage = "fetch"
    /\ st.tips # <<>>
    /\ hist.commits = 1

\* A kept delegate whose advertised rad/id does not verify
BadDelegate ==
    \E d \in delegates :
        rad_id(d) \in DOMAIN adv /\ adv[rad_id(d)] \notin ValidIds

\* C4: when the advertised rad/id of a kept delegate fails verification the
\* verification step cannot succeed, it fails with Prepare::Verification
\* once it gets to prepare, the exchange returns an error and the refdb is
\* the one the replication started from.
C4_DelegateVerificationFatal ==
    (BadDelegate /\ pc \notin {"idle", "clone_step", "verify"}) =>
        /\ ReturnedErr
        /\ hist.vstage # "done"
        /\ (hist.vstage = "prepare" => result.err = "Verification")
        /\ refdb = hist.refdb0

C4_Witness ==
    /\ ReturnedErr /\ BadDelegate
    /\ hist.vstage = "prepare" /\ result.err = "Verification"
    /\ DOMAIN st.ids # {}

\* A tracked non-delegate whose advertised rad/id does not verify, once the
\* verification step has gone through
Tainted(r) ==
    /\ r \in tracked.remotes \ delegates
    /\ should_keep(mode, r)
    /\ rad_id(r) \in DOMAIN adv /\ adv[rad_id(r)] \notin ValidIds
    /\ hist.vstage = "done"

\* C5: a tracked non-delegate that fails verification does not fail the
\* exchange, and no update of any kind is queued or committed for a ref
\* under its namespace in that exchange.
C5_TaintedNamespaceUntouched ==
    \A r \in PKs :
        Tainted(r) =>
            /\ \A u \in hist.queued : NamespaceOfName(u.name) # r
            /\ \A i \in DOMAIN result.applied.updated :
                   NamespaceOfName(result.applied.updated[i].name) # r

\* C7: no Prune update is ever queued or committed for a refname of the
\* form refs/namespaces/<pk>/refs/rad/...
C7_NoPruneUnderRad ==
    /\ \A u \in hist.queued : (u.kind = "Prune" => ~IsRadName(u.name))
    /\ \A i \in DOMAIN result.applied.updated :
           (result.applied.updated[i].kind = "Prune"
               => ~IsRadName(result.applied.updated[i].name))

C7_Witness ==
    \E i \in DOMAIN result.applied.updated :
        /\ result.applied.updated[i].kind = "Prune"
        /\ \E n \in DOMAIN refdb :
               /\ IsRadName(n) /\ RemoteRefFrom(n).kind = "Err"
               /\ NamespaceOfName(n)
                    = NamespaceOfName(result.applied.updated[i].name)

\* C8: pull and clone with remote = local return ReplicateSelf before any
\* handshake, ls-refs or fetch is written, with refdb and fetch state
\* untouched.
C8_ReplicateSelfFirst ==
    (remote = Local /\ pc # "idle") =>
        /\ ReturnedErr /\ result.err = "ReplicateSelf"
        /\ wire = <<>>
        /\ refdb = hist.refdb0 /\ odb = ObjectsOf(refdb)
        /\ st = FetchStateDefault

C8_Witness ==
    /\ remote = Local /\ ReturnedErr /\ result.err = "ReplicateSelf"
    /\ mode = "pull" /\ round = 1
    /\ current(FetchStateDefault, refdb, odb, Local).id # NoOid

\* C9: a pull that follows a pull that returned Ok, with the same remote,
\* advertisement, manifests and tracking and no other writer, returns an
\* empty applied.updated and leaves the refdb as the first pull left it.
C9_SecondPullNoop ==
    (ReturnedOk /\ hist.prev_ok) =>
        /\ result.applied.updated = <<>>
        /\ refdb = hist.refdb0

\* Did the remote advertise both special refs of every kept delegate?
DelegatesAdvertised ==
    \A d \in delegates : special_refs(d) \subseteq DOMAIN adv

\* C11: a step returns Ok only if its required refs were received -- the
\* clone step the canonical refs/rad/id, the verification step rad/id and
\* rad/sigrefs of every kept delegate -- and once the refs were listed a
\* step that lacks them fails with MissingRequiredRefs, an empty
\* advertisement included.
C11_RequiredRefsOrFail ==
    /\ hist.cstage \notin {"none", "ls"} =>
           IF REFS_RAD_ID \in DOMAIN adv
           THEN hist.cstage = "done" => anchor # NoOid
           ELSE /\ hist.cstage = "layout"
                /\ ReturnedErr /\ result.err = "MissingRequiredRefs"
    /\ hist.vstage \notin {"none", "ls"} =>
           \/ DelegatesAdvertised
           \/ /\ hist.vstage = "layout"
              /\ ReturnedErr /\ result.err = "MissingRequiredRefs"

\* The entries of applied.updated / applied.rejected that name the ref n
UpdatedFor(n) ==
    { i \in DOMAIN result.applied.updated : result.applied.updated[i].name = n }
RejectedFor(n) ==
    { i \in DOMAIN result.applied.rejected : result.applied.rejected[i].name = n }

\* What C12 asks of the signed ref n of a loaded manifest, offered at tip
SignedRefMoved(n, tip) ==
    /\ hist.dstage = "done" => UDirect(n, tip, "Allow") \in hist.queued
    /\ ReturnedOk =>
          /\ RejectedFor(n) = {}
          /\ n \in DOMAIN refdb /\ refdb[n] = Direct(tip)
          /\ (peel(hist.refdb0, n) \in Ancestors(tip)) =>
                 /\ Cardinality(UpdatedFor(n)) = 1
                 /\ \A i \in UpdatedFor(n) :
                        result.applied.updated[i]
                          = Updated("Direct", n, peel(hist.refdb0, n), tip, <<>>)

\* C12: for every entry (refname, tip) of every loaded manifest the data
\* step queues Direct{no_ff = Allow} at refs/namespaces/<remote>/<refname>;
\* a fast-forward is reported as exactly one updated entry from the old to
\* the new tip, and a diverged ref is moved to the tip, never rejected.
C12_SignedRefsDirectAllow ==
    \A r \in DOMAIN signed_refs :
        \A q \in DOMAIN signed_refs[r].refs :
            SignedRefMoved(with_namespace(r, q), signed_refs[r].refs[q])

C12_Witness ==
    /\ ReturnedOk
    /\ \E i \in DOMAIN result.applied.updated :
           result.applied.updated[i]
             = Updated("Direct", with_namespace("A", Main), "C1", "C2", <<>>)
    /\ "B" \in DOMAIN signed_refs

\* The refs C13 expects to be pruned for the loaded remote r: present under
\* refs/namespaces/<r>/, not signed, not under refs/namespaces/<r>/refs/rad/
Unsigned(db, r) ==
    { n \in DOMAIN db :
        /\ NamespaceOfName(n) = r
        /\ ~IsRadName(n)
        /\ strip_namespace(n) \notin DOMAIN signed_refs[r].refs }

\* C13: for every loaded remote the data step queues a Prune, with prev the
\* current target, for exactly the unsigned refs of its namespace outside
\* refs/rad/, and none of them is left after a successful exchange.
C13_PruneExactlyUnsigned ==
    /\ pc = "commit2" =>
          { u \in hist.queued : u.kind = "Prune" }
            = UNION { { UPrune(n, refdb[n]) : n \in Unsigned(refdb, r) }
                      : r \in DOMAIN signed_refs }
    /\ ReturnedOk =>
          \A r \in DOMAIN signed_refs : Unsigned(refdb, r) = {}

\* C14, as stated: every oid a step asks for is the tip of a received ref
\* and is absent from the local object store.
C14_WantsAreReceivedTips ==
    \A x \in hist.sent : x.wants \subseteq (x.tips \ x.objs)

\* C14, amended: every oid a step asks for is the tip of a received ref or,
\* in the data step, the tip of an entry of a loaded signed-refs manifest,
\* and is absent from the local object store.
C14_WantsAreOfferedTips ==
    \A x \in hist.sent :
        /\ x.wants # {}
        /\ x.wants \subseteq ((x.tips \cup x.signed) \ x.objs)
        /\ x.kind # "Refs" => x.wants \subseteq x.tips

C14_Witness ==
    \E x \in hist.sent, y \in hist.sent :
        /\ x.kind = "Fetch" /\ x.tips \cap x.objs # {}
        /\ y.kind = "Refs" /\ y.wants \ y.tips # {}

\* How often the sentinel was written on the transport of this exchange
DoneCount(w) == Cardinality({ i \in 1..Len(w) : w[i] = "done" })

\* The handshake was written and answered: the session is past it
HandshakeCompleted == "handshake" \in Range(wire) /\ result.err # "Handshake"

\* C15: an exchange that completed the handshake has, when it returns (Ok
\* or error), written the sentinel exactly once and as the last thing on
\* the transport, so that no ls-refs or fetch request follows it.
C15_SentinelEndsSession ==
    (pc = "done" /\ HandshakeCompleted) =>
        /\ DoneCount(wire) = 1
        /\ wire[Len(wire)] = "done"

\* The remote offers, for a delegate of this exchange, an identity that is
\* neither an ancestor nor a descendant of the anchor
Diverged ==
    /\ anchor # NoOid
    /\ \E d \in delegates :
          /\ rad_id(d) \in DOMAIN adv
          /\ newer(anchor, adv[rad_id(d)]) = "Fork"

\* C17: a pull on which the anchor and the delegate identity the remote
\* offers have diverged, and on which nothing else fails, returns Ok with
\* requires_confirmation set, after both commits and the data step.
C17_ForkAsksConfirmation ==
    (pc = "done" /\ mode = "pull" /\ Diverged /\ result.err \in {"", "Fork"}) =>
        /\ result.ok /\ result.rc
        /\ hist.commits = 2
        /\ hist.dstage # "none"

\* The first clone into an empty repository from the single delegate A,
\* who offers the canonical identity, its own identity and signed refs,
\* and the one branch its manifest SA2 signs
CloneFromDelegate ==
    /\ mode = "clone" /\ round = 1 /\ remote = "A"
    /\ hist.refdb0 = EmptyMap
    /\ adv = Merge(REFS_RAD_ID :> "I1", AdvNamespace("A", "I1", "SA2"))

\* The refs C18 expects the clone to create
CloneCreates ==
    {REFS_RAD_ID, rad_id("A"), rad_sigrefs("A"), with_namespace("A", Main)}

\* C18: that clone returns Ok without a confirmation request and without
\* warnings, and applied.updated holds a creation (prev = null) for each of
\* the four refs, the canonical refs/rad/id included.
C18_CloneCreatesFourRefs ==
    (ReturnedOk /\ CloneFromDelegate) =>
        /\ ~result.rc
        /\ result.validation = {}
        /\ \A n \in CloneCreates :
              \E i \in UpdatedFor(n) : result.applied.updated[i].prev = NullOid

\* What holds of that clone instead: it fails on the transport only, and it
\* creates the three namespaced refs and leaves the canonical one absent
CloneCreatesNamespacedRefs ==
    (pc = "done" /\ CloneFromDelegate) =>
        /\ result.ok \/ result.err \in {"Io", "Handshake"}
        /\ ReturnedOk =>
              /\ ~result.rc
              /\ result.validation = {}
              /\ \A n \in CloneCreates \ {REFS_RAD_ID} :
                    \E i \in UpdatedFor(n) : result.applied.updated[i].prev = NullOid
              /\ UpdatedFor(REFS_RAD_ID) = {}
              /\ REFS_RAD_ID \notin DOMAIN refdb

\* C19: once both steps and both commits have succeeded the exchange, unless
\* the transport fails, writes the sentinel and returns Ok, and every
\* warning validate produces for a loaded remote is in FetchResult.validation.
C19_WarningsNeverFail ==
    (pc = "done" /\ hist.commits = 2 /\ result.err # "Io") =>
        /\ result.ok
        /\ wire # <<>> /\ wire[Len(wire)] = "done"
        /\ ExchangeWarnings(refdb, odb, mode, signed_refs) \subseteq result.validation

\* C22: a step goes on past its fetch only if a pack was written and every
\* wanted oid is in the pack's index; else the step fails, queues nothing
\* and leaves the FetchState (staging and tips) as it found it.
C22_FetchNeedsEveryWant ==
    \A x \in hist.packs :
        /\ x.fetch_ok => (x.received /\ x.wants \subseteq x.index)
        /\ ~x.fetch_ok => (~x.step_ok /\ x.queued = <<>> /\ x.kept)
        /\ (~x.received \/ ~(x.wants \subseteq x.index)) => ~x.fetch_ok

C22_Witness ==
    \E x \in hist.packs :
        /\ x.received /\ x.index # {} /\ ~x.fetch_ok
        /\ pc = "done" /\ ~result.ok

\* The positions of exchange() from its first step to its return, in the
\* order of the code
ExchangeOrder ==
    <<"verify", "load", "commit1", "data", "commit2", "validate", "done">>

\* The position that follows p in exchange()
NextPosition(p) ==
    ExchangeOrder[(CHOOSE i \in 1..(Len(ExchangeOrder) - 1) :
                      ExchangeOrder[i] = p) + 1]

\* What one step of exchange() wrote on the transport
Written == SubSeq(wire', Len(wire) + 1, Len(wire'))

\* One step inside exchange(): the next position or the return, the refdb
\* written from the two commit points only, the second commit entered from
\* a data step that ran to its end, ls-refs and fetch written by the two
\* steps only and done by the validation only
C26_Step ==
    pc \in Range(ExchangeOrder) \ {"done"} =>
       /\ pc' \in {NextPosition(pc), "done"}
       /\ refdb' # refdb =>
             /\ pc \in {"commit1", "commit2"}
             /\ hist'.commits = hist.commits + 1
             /\ hist'.commits = (IF pc = "commit1" THEN 1 ELSE 2)
       /\ hist'.commits # hist.commits => pc \in {"commit1", "commit2"}
       /\ pc' = "commit2" => pc = "data" /\ hist'.dstage = "done"
       /\ pc \in {"verify", "data"} =>
             Written \in {<<>>, <<"ls-refs">>, <<"ls-refs", "fetch">>}
       /\ pc \in {"load", "commit1", "commit2"} => Written = <<>>
       /\ pc = "validate" => /\ Written \in {<<>>, <<"done">>}
                             /\ result'.ok => Written = <<"done">>

\* C26: within one exchange the actions occur in the order verification
\* step (ls-refs, optional fetch), first commit, data step (ls-refs,
\* optional fetch), second commit, validation, done, and in no other; the
\* real refdb is written at the two commit points only, and the second
\* commit is reached only from a data step that returned Ok.
C26_ExchangeOrder == [][C26_Step]_vars

\* An exchange that went through every position: both steps fetched, both
\* commits changed the refdb, and done was written
C26_Witness ==
    /\ ReturnedOk
    /\ hist.commits = 2
    /\ refdb # hist.refdb0
    /\ \E i, j \in DOMAIN wire :
          /\ i < j /\ wire[i] = "fetch" /\ wire[j] = "fetch"
          /\ wire[Len(wire)] = "done"

\* An update of a rad/id or of a rad/sigrefs, by the name it writes
IsRadUpdate(u) ==
    /\ u.kind \in {"Direct", "Symbolic"}
    /\ \/ IsSuffix(REFS_RAD_ID, u.name)
       \/ IsSuffix(REFS_RAD_SIGREFS, u.name)

\* C27: the first commit of an exchange applies exactly the rad/id and
\* rad/sigrefs updates queued so far: once it is through, none of them is
\* left in the tips queue, the queue holds every other queued update, and
\* what the commit reports is about rad/id and rad/sigrefs names only.
C27_FirstCommitTakesRadRefs ==
    pc = "data" =>
       /\ \A u \in Range(st.tips) : ~IsRadUpdate(u)
       /\ Range(st.tips) = { u \in hist.queued : ~IsRadUpdate(u) }
       /\ \A i \in DOMAIN result.applied.updated :
             \/ IsSuffix(REFS_RAD_ID, result.applied.updated[i].name)
             \/ IsSuffix(REFS_RAD_SIGREFS, result.applied.updated[i].name)
       /\ \A u \in Range(result.applied.rejected) : IsRadUpdate(u)

\* The remotes whose advertised rad/sigrefs tip the verification step of
\* this exchange queued
AcceptedSigrefs ==
    { r \in PKs :
        /\ rad_sigrefs(r) \in DOMAIN adv
        /\ \E u \in Range(hist.vbatch) :
              /\ u.kind = "Direct"
              /\ u.name = rad_sigrefs(r)
              /\ u.target = adv[rad_sigrefs(r)] }

\* C28: for every remote whose advertised rad/sigrefs tip T the
\* verification step accepted, the signed refs the data step is planned
\* with are the ones loaded at T, also when T was in the object store
\* already and the step had nothing to fetch.
C28_SigrefsLoadedAtAdvertised ==
    pc \in {"commit1", "data", "commit2", "validate"} =>
       \A r \in AcceptedSigrefs \cap DOMAIN signed_refs :
          signed_refs[r] = load_at(odb, adv[rad_sigrefs(r)], r)

\* The orders in which the names of S can be received
Orders(S) == { s \in [1..Cardinality(S) -> S] : Range(s) = S }

\* The updates of a batch that write under the namespace of r
UpdatesFor(batch, r) ==
    SelectSeq(batch, LAMBDA u : NamespaceOfName(u.name) = r)

\* No update, or one for the rad/id of r and one for its rad/sigrefs
PairedFor(tips, r) ==
    \/ tips = <<>>
    \/ /\ Len(tips) = 2
       /\ { tips[1].name, tips[2].name } = special_refs(r)

\* C29: whatever was advertised, in whatever order, whoever the delegates
\* are and however the verification ends, the updates the verification
\* step's prepare returns hold for each remote either nothing or one update
\* of its rad/id and one of its rad/sigrefs, and on a pull nothing for the
\* local peer's own namespace.
C29_SpecialRefsPaired ==
    pc = "load" =>
       /\ \A r \in PKs : PairedFor(UpdatesFor(hist.vbatch, r), r)
       /\ mode = "pull" => UpdatesFor(hist.vbatch, Local) = <<>>
       /\ \A r \in PKs, isDelegate \in BOOLEAN :
          \A names \in Orders(special_refs(r) \cap DOMAIN adv) :
          \E v \in { VerificationIn(odb, adv, names, isDelegate) } :
             /\ PairedFor(v.tips, r)
             /\ v = VerificationOf(odb, adv, Range(names), r, isDelegate)

\* A pull whose verification step took both special refs of A, nothing of B
\* although B advertised its rad/sigrefs, and nothing of the local peer
\* although its namespace was advertised
C29_Witness ==
    /\ pc = "load" /\ mode = "pull"
    /\ Len(UpdatesFor(hist.vbatch, "A")) = 2
    /\ rad_sigrefs("B") \in DOMAIN adv
    /\ "B" \in tracked.remotes
    /\ UpdatesFor(hist.vbatch, "B") = <<>>
    /\ rad_id(Local) \in DOMAIN adv
    /\ Local \in tracked.remotes

\* What load answers for each id when the loads of `bad` fail
StoreWith(bad) ==
    [r \in PKs |-> IF r \in bad THEN StoreError
                   ELSE cached_load(st, refdb, odb, r)]

\* What C30 asks of one result of combined
SelectionLoaded(store, must, may, res) ==
    /\ res.ok <=> /\ \A id \in must : store[id] # NoSigrefs
                  /\ \A id \in must \cup may : store[id] # StoreError
    /\ res.ok =>
          /\ must \subseteq DOMAIN res.refs
          /\ DOMAIN res.refs \subseteq must \cup may
          /\ \A id \in DOMAIN res.refs : res.refs[id] = store[id]
          /\ \A id \in may \ must : store[id] = NoSigrefs
                                       => id \notin DOMAIN res.refs
    /\ ~res.ok =>
          /\ res.err \in {"NotFound", "Load"}
          /\ res.err = "NotFound" =>
                res.id \in must /\ store[res.id] = NoSigrefs
          /\ res.err = "Load" =>
                res.id \in must \cup may /\ store[res.id] = StoreError
          /\ (\A id \in must \cup may : store[id] # StoreError)
                => res.err = "NotFound"
          /\ (\A id \in must : store[id] # NoSigrefs) => res.err = "Load"

\* C30: loading the signed refs of a selection (must, may) fails with
\* NotFound(id) for an id of must that has no signed refs, leaves out each
\* id of may that has none, fails with the store's error when a load fails,
\* and on success returns a map whose keys hold all of must and lie in
\* must \cup may. The exchange keeps the map of its own selection.
C30_CombinedSelection ==
    pc = "commit1" =>
       /\ \A must \in SUBSET PKs, may \in SUBSET PKs, bad \in SUBSET PKs :
          \E store \in { StoreWith(bad) } :
             SelectionLoaded(store, must, may, combined(store, must, may))
       /\ signed_refs
            = combined(StoreWith({}), delegates,
                       tracked.remotes \ delegates).refs

\* The exchange loaded a selection in which a delegate had signed refs and
\* a tracked peer that is no delegate had none and was left out
C30_Witness ==
    /\ pc = "commit1"
    /\ \E d \in delegates : d \in DOMAIN signed_refs
    /\ \E m \in tracked.remotes \ delegates :
          /\ cached_load(st, refdb, odb, m) = NoSigrefs
          /\ m \notin DOMAIN signed_refs

\* The updates of the refname n staged so far in this exchange
StagedFor(n) == { u \in hist.queued : u.name = n }

\* C32: at every point of an exchange a lookup of n through the cached view
\* returns the staged target when a Direct or Symbolic update of n is
\* staged, nothing when a Prune of n is staged, and the real refdb's value
\* otherwise; before the first commit the real refdb itself holds no staged
\* value.
C32_CachedSeesStaged ==
    pc \in {"load", "commit1", "data", "commit2"} =>
       /\ \A n \in (DOMAIN refdb) \cup (DOMAIN st.refs)
                      \cup { u.name : u \in hist.queued } :
             /\ StagedFor(n) = {} =>
                   cached_refname_to_id(st, refdb, n) = refname_to_id(refdb, n)
             /\ \A u \in StagedFor(n) :
                   StagedFor(n) = {u} =>
                      cached_refname_to_id(st, refdb, n)
                         = (IF u.kind = "Prune" THEN NoOid ELSE u.target)
       /\ pc \in {"load", "commit1"} => refdb = hist.refdb0

\* The rad/id a pull started on refdb db anchors itself to: the local
\* peer's own when it resolves, else the canonical one, else none
AnchorRef(db) ==
    IF refname_to_id(db, rad_id(Local)) # NoOid
    THEN refname_to_id(db, rad_id(Local))
    ELSE refname_to_id(db, REFS_RAD_ID)

\* C33: a pull takes its anchor from refs/namespaces/<local>/refs/rad/id
\* when that ref exists and from refs/rad/id otherwise; when neither exists
\* it returns MissingRadId with no handshake, no other transport I/O and no
\* write to the refdb.
C33_PullAnchor ==
    mode = "pull" /\ remote # Local /\ pc # "idle" =>
       IF AnchorRef(hist.refdb0) = NoOid
       THEN /\ pc = "done" /\ ~result.ok /\ result.err = "MissingRadId"
            /\ wire = <<>>
            /\ refdb = hist.refdb0
       ELSE /\ result.err # "MissingRadId"
            /\ pc # "done" => anchor = AnchorRef(hist.refdb0)

\* A pull anchored to the local peer's own rad/id in a repository without
\* refs/rad/id, and a pull that found neither
C33_Witness ==
    /\ mode = "pull" /\ remote # Local
    /\ \/ /\ pc = "verify"
          /\ REFS_RAD_ID \notin DOMAIN refdb
          /\ anchor = refname_to_id(refdb, rad_id(Local))
       \/ /\ ReturnedErr /\ result.err = "MissingRadId" /\ wire = <<>>

\* C34: the requires_confirmation flag of an exchange is true exactly when
\* the newest of the delegates' verified identities seen in the exchange,
\* the local key left out, differs from the anchor and is newer than it,
\* whether or not the local peer is a delegate of the anchor; it is false
\* when no identity of a delegate other than the local peer was obtained.
C34_ConfirmationIffNewer ==
    pc = "commit1" =>
       \E nw \in { newest(st, refdb, odb, Local, delegates \ {Local}) } :
          result.rc <=> /\ nw.err = "" /\ nw.id # NoOid
                        /\ nw.id # anchor
                        /\ newer(anchor, nw.id) = nw.id

\* C35: for each received ref whose name resolves to c, c is recorded as a
\* have; the received tip t is recorded as a have as well exactly when c is
\* t or an ancestor of t; t is recorded as a want exactly when it differs
\* from c and is not in the object store.
C35_HavesOfDescendants ==
    pc = "verify" =>
       \A n \in DOMAIN adv :
          refname_to_id(refdb, n) # NoOid =>
             \E c \in { refname_to_id(refdb, n) } :
             \E x \in { Candidate(refdb, odb, n, adv[n]) } :
                /\ c \in x.haves
                /\ adv[n] \in x.haves
                      <=> (c = adv[n] \/ c \in Ancestors(adv[n]))
                /\ x.want <=> (adv[n] # c /\ adv[n] \notin odb)

\* The refs the verification step of this exchange received
VerificationReceived ==
    received("Fetch", adv, remote, tracked, delegates, EmptyMap)

\* What C36 asks of build for the candidates cands
BuildDisjoint(cands, wh) ==
    /\ wh.some => wh.wants # {} /\ wh.wants \cap wh.haves = {}
    /\ ~wh.some <=> { x.tip : x \in { y \in cands : y.want } }
                       \subseteq UNION { x.haves : x \in cands }

SigrefsOf(r) ==
    { [at |-> t, refs |-> Manifest(t)] : t \in { x \in SigOids : SignerOf(x) = r } }

\* The refs of db under the namespace of r
NamespaceRefs(db, r) == { n \in DOMAIN db : NamespaceOfName(n) = r }

\* The namespace of r holds rad/id, rad/sigrefs at the manifest's tip, and
\* exactly the signed refs, each at its signed oid
ExactlySigned(db, r, sr) ==
    /\ rad_id(r) \in DOMAIN db
    /\ rad_sigrefs(r) \in DOMAIN db /\ peel(db, rad_sigrefs(r)) = sr.at
    /\ NamespaceRefs(db, r)
          = special_refs(r) \cup { with_namespace(r, q) : q \in DOMAIN sr.refs }
    /\ \A q \in DOMAIN sr.refs : peel(db, with_namespace(r, q)) = sr.refs[q]

\* The refs present under the namespace of r that deviate from the manifest:
\* rad/sigrefs elsewhere than at its tip, a ref that is not signed, a signed
\* ref at another oid
Deviating(db, r, sr) ==
    { n \in NamespaceRefs(db, r) :
        IF n = rad_sigrefs(r) THEN peel(db, n) # sr.at
        ELSE IF strip_namespace(n) \in DOMAIN sr.refs
             THEN sr.refs[strip_namespace(n)] # peel(db, n)
        ELSE n # rad_id(r) }

\* What C37 asks of the warnings ws of validate(db, r, sr)
Validated(db, r, sr, ws) ==
    /\ ws = {} <=> ExactlySigned(db, r, sr)
    /\ Warn("NoData", <<r>>) \in ws <=> NamespaceRefs(db, r) = {}
    /\ NamespaceRefs(db, r) = {} => ws = {Warn("NoData", <<r>>)}
    /\ NamespaceRefs(db, r) # {} =>
          /\ Warn("MissingRadId", <<r>>) \in ws <=> rad_id(r) \notin DOMAIN db
          /\ Warn("MissingRadSigRefs", <<r>>) \in ws
                <=> rad_sigrefs(r) \notin DOMAIN db
          /\ \A q \in DOMAIN sr.refs :
                Warn("MissingRef", with_namespace(r, q)) \in ws
                   <=> with_namespace(r, q) \notin DOMAIN db
          /\ \A n \in NamespaceRefs(db, r) :
                Cardinality({ w \in ws : w.name = n })
                   = (IF n \in Deviating(db, r, sr) THEN 1 ELSE 0)
          /\ Cardinality(ws)
                = Cardinality(Deviating(db, r, sr))
                  + Cardinality({ q \in DOMAIN sr.refs :
                                    with_namespace(r, q) \notin DOMAIN db })
                  + (IF rad_id(r) \in DOMAIN db THEN 0 ELSE 1)
                  + (IF rad_sigrefs(r) \in DOMAIN db THEN 0 ELSE 1)

\* C37: validate returns no warning exactly when the remote's namespace
\* holds rad/id, rad/sigrefs at the manifest's tip and exactly the signed
\* refs at their signed oids; otherwise it returns one warning for each
\* deviation, and the single warning NoData when the namespace has no ref.
C37_ValidateExact ==
    pc = "validate" =>
       \A r \in PKs : \A sr \in SigrefsOf(r) :
          Validated(refdb, r, sr, validate(refdb, r, sr))


-----------------------------------------------------------------------------
(* SpecUpdate: Refdb::update on its own, applied to batches built from a   *)
(* small universe of updates over a repository with direct and symbolic    *)
(* refs.                                                                   *)

\* Longest batch handed to Refdb::update
MaxBatch == 2

IdleExchange ==
    /\ mode = "pull" /\ remote = "A"
    /\ tracked = [scope |-> "Trusted", remotes |-> {}]
    /\ adv = EmptyMap
    /\ round = 1
    /\ st = FetchStateDefault
    /\ anchor = NoOid
    /\ delegates = {}
    /\ signed_refs = EmptyMap
    /\ result = NoResult
    /\ wire = <<>>

\* SeedA, and SeedA with HEAD-like symbolic ref in place of the cob
UpdateSeeds ==
    { SeedA, [SeedA EXCEPT ![with_namespace("A", Cob)] =
                               Sym(with_namespace("A", Main))] }

UpdateUniverse ==
    { UDirect(rad_id("A"), "I2", "Abort"),
      UDirect(rad_id("A"), "IF", "Abort"),
      UDirect(rad_sigrefs("A"), "SA3", "Abort"),
      UDirect(with_namespace("A", Main), "C2", "Allow"),
      UDirect(with_namespace("A", Main), "C3", "Allow"),
      UDirect(with_namespace("A", Main), "C3", "Reject"),
      UDirect(with_namespace("B", Main), "C1", "Allow"),
      USymbolic(with_namespace("A", Main), with_namespace("A", Cob), "C3", "Abort"),
      USymbolic(with_namespace("A", RadX), with_namespace("A", Main), "C2", "Allow"),
      UPrune(with_namespace("A", Cob), Direct("C3")) }

InitUpdate ==
    /\ refdb \in UpdateSeeds
    /\ odb \in { ObjectsOf(refdb), Oids }
    /\ pc = "u_build"
    /\ hist = NoHist(refdb)
    /\ ubatch = <<>>
    /\ uout = [ok |-> FALSE, err |-> "", db |-> EmptyMap, applied |-> NoApplied]
    /\ IdleExchange
    /\ IdleSnap
    /\ IdleUpload
    /\ IdleAncestry
    /\ IdleScan

\* The caller adds one more update to the batch
PushUpdate ==
    /\ pc = "u_build"
    /\ Len(ubatch) < MaxBatch
    /\ \E u \in UpdateUniverse : ubatch' = Append(ubatch, u)
    /\ UNCHANGED <<exVars, uout, snapVars, uplVars, ancVars, scnVars>>

\* Refdb::update(batch)
ApplyUpdate ==
    /\ pc = "u_build"
    /\ \E r \in { update(refdb, odb, ubatch) } :
        /\ uout' = r
        /\ refdb' = r.db
    /\ pc' = "u_done"
    /\ UNCHANGED <<odb, mode, remote, tracked, adv, round, st, anchor,
                   delegates, signed_refs, result, wire, hist, ubatch,
                   snapVars, uplVars, ancVars, scnVars>>

NextUpdate == PushUpdate \/ ApplyUpdate

SpecUpdate == InitUpdate /\ [][NextUpdate]_vars

\* An update that the policy Abort refuses on the refdb `db`: a Direct one
\* whose target is neither the ref's target nor a descendant of it, or a
\* Symbolic one on a ref that is direct
Refused(u, db, objs) ==
    /\ u.policy = "Abort"
    /\ u.name \in DOMAIN db
    /\ ~db[u.name].sym
    /\ \/ u.kind = "Symbolic"
       \/ /\ u.kind = "Direct"
          /\ is_in_ancestry_path(objs, u.target, db[u.name].oid) = "false"

\* A change of a ref from `old` to `new` that is a fast-forward
FastForward(objs, old, new) ==
    ~old.sym /\ ~new.sym /\ is_in_ancestry_path(objs, new.oid, old.oid) = "true"

\* C6: when a batch holds an update that the policy Abort refuses,
\* Refdb::update returns an error and applies no update of the batch; a
\* committed change of a rad/id or rad/sigrefs ref is a creation or a
\* fast-forward.
C6_AbortRefusesBatch ==
    pc = "u_done" =>
        /\ (\E i \in DOMAIN ubatch : Refused(ubatch[i], hist.refdb0, odb))
              => (~uout.ok /\ refdb = hist.refdb0)
        /\ \A n \in (DOMAIN refdb) \cap (DOMAIN hist.refdb0) :
              (is_special(RemoteRefFrom(n)) /\ refdb[n] # hist.refdb0[n])
                  => FastForward(odb, hist.refdb0[n], refdb[n])

\* A Direct update under the policy Reject that is not a fast-forward of
\* the ref it names on the refdb `db`
RejectedNonFF(u, db, objs) ==
    /\ u.kind = "Direct" /\ u.policy = "Reject"
    /\ u.name \in DOMAIN db /\ ~db[u.name].sym
    /\ is_in_ancestry_path(objs, u.target, db[u.name].oid) = "false"

\* The batch without its i-th update
Without(batch, i) == SubSeq(batch, 1, i - 1) \o SubSeq(batch, i + 1, Len(batch))

\* The refs an update can write
Touches(u) == {u.name} \cup (IF u.kind = "Symbolic" THEN {u.tname} ELSE {})

\* C21: a Direct update under Reject that is not a fast-forward is handed
\* back in Applied.rejected; the batch commits what it would commit
\* without it; and the ref it names keeps its value and has no entry in
\* Applied.updated, unless another update of the batch writes that ref.
C21_RejectLeavesRef ==
    pc = "u_done" =>
        \A i \in DOMAIN ubatch :
            RejectedNonFF(ubatch[i], hist.refdb0, odb) =>
                \E rest \in { update(hist.refdb0, odb, Without(ubatch, i)) } :
                    /\ uout.ok = rest.ok /\ uout.db = rest.db
                    /\ uout.applied.updated = rest.applied.updated
                    /\ uout.ok => ubatch[i] \in Range(uout.applied.rejected)
                    /\ (\A j \in DOMAIN ubatch \ {i} :
                            ubatch[i].name \notin Touches(ubatch[j]))
                       => /\ refdb[ubatch[i].name] = hist.refdb0[ubatch[i].name]
                          /\ \A k \in DOMAIN uout.applied.updated :
                                uout.applied.updated[k].name # ubatch[i].name

C21_Witness ==
    /\ pc = "u_done" /\ uout.ok
    /\ \E i \in DOMAIN ubatch : RejectedNonFF(ubatch[i], hist.refdb0, odb)
    /\ uout.applied.updated # <<>>
    /\ uout.applied.rejected # <<>>

\* The positions of the batch that hold an update of the refname n
QueuedFor(batch, n) == { i \in DOMAIN batch : batch[i].name = n }

\* The position queued last among a non-empty set of positions
LastOf(S) == CHOOSE i \in S : \A j \in S : j <= i

\* The entries of applied.updated that report an edit of n
EditsFor(out, n) ==
    { i \in DOMAIN out.applied.updated : out.applied.updated[i].name = n }

\* Does the reported edit e carry out the update u?
Carries(e, u) ==
    /\ e.kind = u.kind
    /\ e.name = u.name
    /\ u.kind = "Direct" => e.target = u.target
    /\ u.kind = "Symbolic" => e.tname = u.tname

EditingFor(db, objs, batch, n) ==
    { i \in DOMAIN batch :
        /\ to_edits(db, objs, batch[i]).tag = "Edits"
        /\ \E k \in DOMAIN to_edits(db, objs, batch[i]).edits :
              to_edits(db, objs, batch[i]).edits[k].name = n }

\* The edit of n among the edits of one update
EditOf(es, n) == es[CHOOSE k \in DOMAIN es : es[k].name = n]

-----------------------------------------------------------------------------
(* SpecSnap: the packed-refs snapshot facade (gix/refdb/internal.rs) used  *)
(* by several threads while another process rewrites packed-refs.  The     *)
(* content of a packed-refs file is its version number; a packed::Buffer   *)
(* is the content it was opened on (a replaced file keeps its old inode,   *)
(* so a buffer opened earlier keeps what it mapped).                       *)

\* Threads that share one internal::Refdb
NThreads == 2
Threads  == 1..NThreads

\* Number of times the other process rewrites packed-refs
MaxWrites == 2

NoSnapshot == [some |-> FALSE, buf |-> 0]

\* Buffer::open: the slot content for the file as it is now
BufferOpen(d) ==
    IF d.exists THEN [some |-> TRUE, buf |-> d.content, mtime |-> d.mtime]
    ELSE [some |-> FALSE, buf |-> 0, mtime |-> 0]

\* Buffer::is_modified as written: a vanished file counts as modified,
\* otherwise the comparison is `self.mtime == mtime`
is_modified(b, d) == IF ~d.exists THEN TRUE ELSE b.mtime = d.mtime

\* Snapshot { buffer: Some(buffer.buf.clone()) } / Snapshot { buffer: None }
SnapshotOf(b) == [some |-> b.some, buf |-> b.buf]

\* Variant of find for a Snapshot that borrows the shared slot instead of
\* holding its own reference to the buffer
find_Shared(sn, shared) == IF shared.some THEN shared.buf ELSE -1

\* Snapshot::find / Snapshot::iter: the packed content the snapshot `sn`
\* reads, -1 without a packed buffer; `shared` is the slot, which a
\* snapshot does not look at
find(sn, shared) == IF sn.some THEN sn.buf ELSE -1

InitSnap ==
    /\ disk \in { [exists |-> FALSE, mtime |-> 0, content |-> 0],
                  [exists |-> TRUE,  mtime |-> 0, content |-> 0] }
    /\ slot = BufferOpen(disk)
    /\ lock = [readers |-> {}, writer |-> 0]
    /\ th = [t \in Threads |->
                [pc |-> "idle", snap |-> NoSnapshot, seen |-> -1,
                 held |-> FALSE, obs |-> -1]]
    /\ refdb = EmptyMap /\ odb = {} /\ pc = "snap" /\ hist = NoHist(EmptyMap)
    /\ IdleExchange
    /\ IdleUpdate
    /\ IdleUpload
    /\ IdleAncestry
    /\ IdleScan

\* The thread leaves snapshot() with the snapshot `sn`; obs is the mtime of
\* the buffer a thread saw when it decided to reload, -1 when it saw none
Return(t, sn) ==
    th' = [th EXCEPT ![t] = [pc |-> "idle", snap |-> sn,
                             seen |-> find(sn, slot'), held |-> TRUE,
                             obs |-> -1]]

\* Refdb::snapshot, under the read lock: hand out the buffer, or go on to
\* reload -- with the read guard still alive when the buffer looks modified
SnapshotRead(t) ==
    /\ th[t].pc = "idle"
    /\ lock.writer = 0
    /\ IF slot.some
       THEN IF is_modified(slot, disk)
            THEN /\ th' = [th EXCEPT ![t].pc = "reload_reading",
                                     ![t].obs = slot.mtime]
                 /\ lock' = [lock EXCEPT !.readers = @ \cup {t}]
                 /\ UNCHANGED slot
            ELSE /\ UNCHANGED <<slot, lock>>
                 /\ Return(t, SnapshotOf(slot))
       ELSE /\ th' = [th EXCEPT ![t].pc = "reload"]
            /\ UNCHANGED <<slot, lock>>
    /\ UNCHANGED <<exVars, updVars, uplVars, ancVars, scnVars, disk>>

\* Refdb::reload(|_| true), entered without a guard: under the write lock
\* keep a buffer another thread installed meanwhile, else open the file
ReloadWrite(t) ==
    /\ th[t].pc = "reload"
    /\ lock.writer = 0 /\ lock.readers = {}
    /\ slot' = IF slot.some THEN slot ELSE BufferOpen(disk)
    /\ Return(t, SnapshotOf(slot'))
    /\ UNCHANGED <<exVars, updVars, uplVars, ancVars, scnVars, disk, lock>>

\* Refdb::reload entered from snapshot() with the read guard alive: the
\* thread asks for the write lock of an RwLock it holds for reading, which
\* blocks it for good or panics (the guard is released by the unwinding)
ReloadWhileReading(t) ==
    /\ th[t].pc = "reload_reading"
    /\ \E outcome \in {"blocked", "panicked"} :
        /\ th' = [th EXCEPT ![t].pc = outcome]
        /\ lock' = IF outcome = "panicked"
                   THEN [lock EXCEPT !.readers = @ \ {t}]
                   ELSE lock
    /\ UNCHANGED <<exVars, updVars, uplVars, ancVars, scnVars, disk, slot>>

\* The owner drops its snapshot
DropSnapshot(t) ==
    /\ th[t].pc = "idle" /\ th[t].held
    /\ th' = [th EXCEPT ![t].held = FALSE, ![t].snap = NoSnapshot,
                        ![t].seen = -1]
    /\ UNCHANGED <<exVars, updVars, uplVars, ancVars, scnVars, disk, slot, lock>>

\* Another process replaces packed-refs (lock file, then rename); the
\* timestamp may or may not move
WriterReplace ==
    /\ disk.content < MaxWrites
    /\ \E tick \in {0, 1} :
        disk' = [exists |-> TRUE, mtime |-> disk.mtime + tick,
                 content |-> disk.content + 1]
    /\ UNCHANGED <<exVars, updVars, uplVars, ancVars, scnVars, slot, lock, th>>

\* Another process removes packed-refs
WriterRemove ==
    /\ disk.exists /\ disk.content < MaxWrites
    /\ disk' = [disk EXCEPT !.exists = FALSE, !.content = @ + 1]
    /\ UNCHANGED <<exVars, updVars, uplVars, ancVars, scnVars, slot, lock, th>>

NextSnap ==
    \/ \E t \in Threads : SnapshotRead(t)
    \/ \E t \in Threads : ReloadWrite(t)
    \/ \E t \in Threads : ReloadWhileReading(t)
    \/ \E t \in Threads : DropSnapshot(t)
    \/ WriterReplace
    \/ WriterRemove

SpecSnap == InitSnap /\ [][NextSnap]_vars

SnapshotStep(t) ==
    /\ th[t].pc = "idle" /\ slot.some
    /\ th'[t] # th[t]
    /\ th'[t].held \/ th'[t].pc # "idle"

\* What C23 asks of such a step: with the recorded mtime equal to the one
\* on disk the installed buffer is handed out, with a different one (or no
\* file) it is not, and the thread goes on to reload
ReuseIffUnchanged(t) ==
    IF disk.exists /\ slot.mtime = disk.mtime
    THEN th'[t].pc = "idle" /\ th'[t].snap = SnapshotOf(slot)
    ELSE th'[t].pc # "idle"

C23_Step == \A t \in Threads : SnapshotStep(t) => ReuseIffUnchanged(t)

\* C23: snapshot() hands out the installed buffer exactly when its recorded
\* mtime equals the mtime of packed-refs on disk, and reloads otherwise.
C23_ReuseIffUnchanged == [][C23_Step]_vars

\* C24: a thread that is inside snapshot() on its way to reload holds no
\* read lock on the slot when it asks for the write lock, so that no call
\* of snapshot() is left waiting on its own read guard (or panics on it).
C24_ReloadWithoutReadLock ==
    \A t \in Threads :
        th[t].pc # "idle" =>
            /\ t \notin lock.readers
            /\ th[t].pc \notin {"blocked", "panicked"}

\* Under the write lock thread t finds a buffer installed that is not the
\* one it saw: modified_while_blocked holds
Raced(t) == slot.some /\ (th[t].obs = -1 \/ slot.mtime # th[t].obs)

\* Thread t, having decided to reload, takes its next step: it returns,
\* with the installed buffer and without opening the file when it was
\* raced, with a newly opened and installed buffer otherwise
ReloadStep(t) ==
    (th[t].pc \in {"reload", "reload_reading"} /\ th'[t] # th[t]) =>
        /\ th'[t].pc = "idle" /\ th'[t].held
        /\ IF Raced(t)
           THEN slot' = slot /\ th'[t].snap = SnapshotOf(slot)
           ELSE slot' = BufferOpen(disk) /\ th'[t].snap = SnapshotOf(slot')

C25_Step == \A t \in Threads : ReloadStep(t)

\* C25: of two threads that decided to reload on the same observation the
\* first under the write lock opens packed-refs and installs the buffer,
\* the second finds it installed and returns it without opening the file.
C25_RacedReloadReturnsInstalled == [][C25_Step]_vars

-----------------------------------------------------------------------------
(* SpecUpload: the serving side of one session, upload_pack's receive      *)
(* thread fed by the stream the fetching side writes on.  A byte stream    *)
(* keeps no write boundaries: a read returns any non-empty prefix of what  *)
(* is in flight.                                                           *)

MaxRequests == 2

\* Transport::done writes these bytes; two units, so that a read can end
\* inside them
FINISHED == <<"heartwood/", "finished">>

\* The bytes of one ls-refs or fetch request
Request == <<"pkt", "flush">>

InitUpload ==
    /\ tosend \in 0..MaxRequests
    /\ sentinel = FALSE /\ closed = FALSE
    /\ recv = <<>> /\ stdin = <<>>
    /\ reader = "reading" /\ sender = "copying"
    /\ child = "running" /\ upload = "serving"
    /\ refdb = EmptyMap /\ odb = {} /\ pc = "upload" /\ hist = NoHist(EmptyMap)
    /\ IdleExchange
    /\ IdleUpdate
    /\ IdleSnap
    /\ IdleAncestry
    /\ IdleScan

\* The fetching side writes one ls-refs or fetch request
ClientRequest ==
    /\ pc = "upload" /\ ~closed /\ ~sentinel
    /\ tosend > 0
    /\ tosend' = tosend - 1
    /\ recv' = recv \o Request
    /\ UNCHANGED <<exVars, updVars, snapVars, ancVars, scnVars, sentinel, closed, stdin, reader,
                   sender, child, upload>>

\* Transport::done
ClientDone ==
    /\ pc = "upload" /\ ~closed /\ ~sentinel
    /\ tosend = 0
    /\ sentinel' = TRUE
    /\ recv' = recv \o FINISHED
    /\ UNCHANGED <<exVars, updVars, snapVars, ancVars, scnVars, tosend, closed, stdin, reader,
                   sender, child, upload>>

\* The fetching side drops the stream, at any point of the session
ClientHangup ==
    /\ pc = "upload" /\ ~closed
    /\ closed' = TRUE
    /\ UNCHANGED <<exVars, updVars, snapVars, ancVars, scnVars, tosend, sentinel, recv, stdin,
                   reader, sender, child, upload>>

\* One turn of the receive thread's loop: recv.read blocks while nothing is
\* in flight, returns 0 (or an error) once the stream is dropped, and else
\* returns a chunk that is compared, as a whole, with the sentinel
ReaderLoop ==
    /\ pc = "upload" /\ reader = "reading"
    /\ \/ /\ recv = <<>> /\ closed
          /\ reader' = "finished"
          /\ UNCHANGED <<recv, stdin>>
       \/ \E n \in 1..Len(recv), writeOk \in BOOLEAN :
            /\ recv' = SubSeq(recv, n + 1, Len(recv))
            /\ IF SubSeq(recv, 1, n) = FINISHED
               THEN reader' = "finished" /\ UNCHANGED stdin
               ELSE IF writeOk
               THEN stdin' = stdin \o SubSeq(recv, 1, n) /\ UNCHANGED reader
               ELSE reader' = "finished" /\ UNCHANGED stdin
    /\ UNCHANGED <<exVars, updVars, snapVars, ancVars, scnVars, tosend, sentinel, closed,
                   sender, child, upload>>

\* The polling loop of upload_pack: once the receive thread is finished
\* the child is killed
KillChild ==
    /\ pc = "upload" /\ reader = "finished" /\ child = "running"
    /\ child' = "killed"
    /\ UNCHANGED <<exVars, updVars, snapVars, ancVars, scnVars, tosend, sentinel, closed, recv,
                   stdin, reader, sender, upload>>

\* io::copy(stdout, send) ends when the killed child's stdout closes
SenderExit ==
    /\ pc = "upload" /\ sender = "copying" /\ child = "killed"
    /\ sender' = "finished"
    /\ UNCHANGED <<exVars, updVars, snapVars, ancVars, scnVars, tosend, sentinel, closed, recv,
                   stdin, reader, child, upload>>

\* thread::scope has joined both threads; child.wait() and return
UploadReturn ==
    /\ pc = "upload" /\ upload = "serving"
    /\ reader = "finished" /\ sender = "finished" /\ child = "killed"
    /\ upload' = "returned"
    /\ UNCHANGED <<exVars, updVars, snapVars, ancVars, scnVars, tosend, sentinel, closed, recv,
                   stdin, reader, sender, child>>

NextUpload ==
    \/ ClientRequest
    \/ ClientDone
    \/ ClientHangup
    \/ ReaderLoop
    \/ KillChild
    \/ SenderExit
    \/ UploadReturn

\* Threads and the polling loop are scheduled; the fetching side owes
\* nothing: it may stop writing, and it may never hang up
SpecUpload ==
    /\ InitUpload /\ [][NextUpload]_vars
    /\ WF_vars(ReaderLoop) /\ WF_vars(KillChild)
    /\ WF_vars(SenderExit) /\ WF_vars(UploadReturn)

\* C16: once the sentinel is written the receive loop exits and upload_pack
\* returns, however the stream cuts the bytes into reads, and no byte of
\* the sentinel is ever forwarded to the git child's stdin.
C16_SentinelStopsUpload ==
    /\ sentinel ~> (upload = "returned")
    /\ [](\A i \in 1..Len(stdin) : stdin[i] \notin Range(FINISHED))

-----------------------------------------------------------------------------
(* SpecAncestry: Odb::is_in_ancestry_path on its own, over every store     *)
(* that holds some of the commits C1 <- C2 <- C4 -> C3, complete or not.   *)

\* C4 is a merge of C2 and C3 (see Parents)
AncestryOids == DataOids \cup {"C4"}

InitAncestry ==
    /\ odb \in SUBSET AncestryOids
    /\ call = NoCall
    /\ refdb = EmptyMap /\ pc = "ancestry" /\ hist = NoHist(EmptyMap)
    /\ IdleExchange
    /\ IdleUpdate
    /\ IdleSnap
    /\ IdleUpload
    /\ IdleScan

\* Some caller asks whether `old` is in the parent chain of `new`
AncestryCall ==
    /\ pc = "ancestry"
    /\ \E new \in AncestryOids, old \in AncestryOids :
          call' = [new |-> new, old |-> old,
                   out |-> is_in_ancestry_path(odb, new, old)]
    /\ UNCHANGED <<exVars, updVars, snapVars, uplVars, scnVars>>

NextAncestry == AncestryCall

SpecAncestry == InitAncestry /\ [][NextAncestry]_vars

\* Every commit a walk from `new` can come to is in the store
WalkComplete(db, new) == Ancestors(new) \subseteq db

UnderRad(n) ==
    Len(n) >= 5 /\ SubSeq(n, 1, 2) = <<"refs", "namespaces">>
                /\ SubSeq(n, 4, 5) = <<"refs", "rad">>

\* C39: every update queued or committed for a name ending in refs/rad/id
\* or refs/rad/sigrefs is a Direct update with no_ff = Abort, as the
\* verification step creates them, and no Direct update with no_ff = Allow
\* is ever queued for a name under refs/namespaces/<r>/refs/rad/.
C39_RadRefsByVerification ==
    /\ \A u \in hist.queued :
          IsSuffix(REFS_RAD_ID, u.name) \/ IsSuffix(REFS_RAD_SIGREFS, u.name)
             => u.kind = "Direct" /\ u.policy = "Abort"
    /\ \A u \in hist.queued :
          u.kind = "Direct" /\ UnderRad(u.name) => u.policy # "Allow"
    /\ \A i \in DOMAIN result.applied.updated :
          IsSuffix(REFS_RAD_ID, result.applied.updated[i].name)
          \/ IsSuffix(REFS_RAD_SIGREFS, result.applied.updated[i].name)
             => /\ result.applied.updated[i].kind = "Direct"
                /\ UDirect(result.applied.updated[i].name,
                           result.applied.updated[i].target, "Abort")
                      \in hist.queued

\* C40: during a pull no update of any kind is queued or committed for a
\* ref under the namespace of the local peer, whatever the tracked set and
\* whatever the serving peer advertises.
C40_PullSparesLocalNamespace ==
    mode = "pull" =>
       /\ \A u \in hist.queued : NamespaceOfName(u.name) # Local
       /\ \A u \in Range(st.tips) : NamespaceOfName(u.name) # Local
       /\ \A i \in DOMAIN result.applied.updated :
             NamespaceOfName(result.applied.updated[i].name) # Local

-----------------------------------------------------------------------------
(* SpecScan: gix::refdb::InMemory and its Scan iterator on their own.  The *)
(* store is a HashMap, whose iteration order is arbitrary: the model draws *)
(* every order of its entries.                                             *)

ScanNames ==
    { with_namespace("A", Main), rad_id("A"), with_namespace("B", Main), Main }

ScanPrefixes ==
    { NoPrefix } \cup
    { [some |-> TRUE, path |-> <<"refs", "namespaces", r>>] : r \in {"A", "B"} }

\* The orders in which a HashMap holding the names of S can iterate
IterOrders(S) ==
    { o \in [1..Cardinality(S) -> S] : \A n \in S : \E i \in DOMAIN o : o[i] = n }

\* The Ref that Scan::next builds of an entry
ScanRef(m, n) == [name |-> n, target |-> m[n], peeled |-> m[n]]

InitScan ==
    /\ \E S \in SUBSET ScanNames :
          scn \in { [map |-> m, at |-> "none", prefix |-> NoPrefix,
                     inner |-> <<>>, out |-> {}] : m \in [S -> {"C1", "C2"}] }
    /\ refdb = EmptyMap /\ odb = {} /\ pc = "scan" /\ hist = NoHist(EmptyMap)
    /\ IdleExchange
    /\ IdleUpdate
    /\ IdleSnap
    /\ IdleUpload
    /\ IdleAncestry

\* InMemory::scan(prefix): an iterator over the entries of the map
InMemory_scan ==
    /\ pc = "scan"
    /\ scn.at = "none"
    /\ \E p \in ScanPrefixes, o \in IterOrders(DOMAIN scn.map) :
          scn' = [scn EXCEPT !.at = "iterating", !.prefix = p, !.inner = o,
                             !.out = {}]
    /\ UNCHANGED <<exVars, updVars, snapVars, uplVars, ancVars>>

\* Scan::next, called by a consumer that stops at the first None: None when
\* the map's iterator is exhausted; the entry when there is no prefix or its
\* name starts with the prefix; None for an entry that does not
Scan_next ==
    /\ pc = "scan"
    /\ scn.at = "iterating"
    /\ IF scn.inner = <<>>
       THEN scn' = [scn EXCEPT !.at = "ended"]
       ELSE IF ~scn.prefix.some \/ IsPrefix(scn.prefix.path, Head(scn.inner))
       THEN scn' = [scn EXCEPT !.inner = Tail(scn.inner),
                               !.out = @ \cup {ScanRef(scn.map, Head(scn.inner))}]
       ELSE scn' = [scn EXCEPT !.inner = Tail(scn.inner), !.at = "ended"]
    /\ UNCHANGED <<exVars, updVars, snapVars, uplVars, ancVars>>

NextScan == InMemory_scan \/ Scan_next

SpecScan == InitScan /\ [][NextScan]_vars

\* The entries of the map a scan with this prefix is to yield
Matching(m, p) ==
    { ScanRef(m, n) : n \in { k \in DOMAIN m : ~p.some \/ IsPrefix(p.path, k) } }

\* The consumer of the scan has come to its None
ScanEnded == scn.at = "ended"

\* C38: a scan with a prefix yields every staged entry whose name starts
\* with the prefix and no other, and a scan without prefix yields every
\* staged entry, in whatever order the map iterates.
C38_ScanYieldsMatching ==
    ScanEnded => scn.out = Matching(scn.map, scn.prefix)

====
